---- MODULE Spec2Model ----
(***************************************************************************)
(* homelab-srv: the configuration model (SrvFolder and the entities it     *)
(* owns) and its sanity-check traversal, with the command line's severity  *)
(* classification of the problems it yields.                                *)
(*                                                                         *)
(* Text is modelled by TLA+ strings, on which Len, \o and SubSeq act as on  *)
(* sequences of characters.  A python dict is an ordered mapping: a        *)
(* sequence of <<key, value>> pairs with distinct keys, in insertion order. *)
(* An optional value is <<>> (None) or <<v>>.                              *)
(***************************************************************************)
EXTENDS Integers, Sequences, FiniteSets, TLC

----------------------------------------------------------------------------
(* Bounds of the model *)

\* most unit documents found in one folder (standalone and nested together)
MaxUnits == 2

\* a command fails at one of the first MaxFail commands it executes, or not at all
MaxFail == 3

----------------------------------------------------------------------------
(* python builtins used by the program *)

None == <<>>

Some(v) == <<v>>

CharAt(s, i) == SubSeq(s, i, i)

\* python: w in s
Contains(s, w) == \E i \in 1..(Len(s) - Len(w) + 1) : SubSeq(s, i, i + Len(w) - 1) = w

\* python: s.startswith(w)
startswith(s, w) == Len(s) >= Len(w) /\ SubSeq(s, 1, Len(w)) = w

\* index of the first occurrence of the one-character sep in s, 0 when absent
Find(s, sep) ==
  LET at == {i \in 1..Len(s) : CharAt(s, i) = sep}
  IN IF at = {} THEN 0 ELSE CHOOSE i \in at : \A k \in at : i <= k

\* python: s.partition(sep), as <<head, tail>> (the separator itself is dropped)
partition(s, sep) ==
  LET i == Find(s, sep)
  IN IF i = 0 THEN <<s, "">> ELSE <<SubSeq(s, 1, i - 1), SubSeq(s, i + 1, Len(s))>>

\* python: s.rpartition(sep), as <<head, tail>>: split at the last sep, the
\* head empty when there is none
rpartition(s, sep) ==
  LET at == {i \in 1..Len(s) : CharAt(s, i) = sep}
      i == IF at = {} THEN 0 ELSE CHOOSE k \in at : \A m \in at : m <= k
  IN IF i = 0 THEN <<"", s>> ELSE <<SubSeq(s, 1, i - 1), SubSeq(s, i + 1, Len(s))>>

\* python: s.strip(), for the blank
strip(s) ==
  IF \A i \in 1..Len(s) : CharAt(s, i) = " "
    THEN ""
    ELSE LET a == CHOOSE i \in 1..Len(s) : CharAt(s, i) # " " /\ \A j \in 1..(i - 1) : CharAt(s, j) = " "
             b == CHOOSE i \in 1..Len(s) : CharAt(s, i) # " " /\ \A j \in (i + 1)..Len(s) : CharAt(s, j) = " "
         IN SubSeq(s, a, b)

\* str.rstrip(ch)
RECURSIVE rstrip(_, _)
rstrip(s, ch) ==
  IF Len(s) > 0 /\ CharAt(s, Len(s)) = ch THEN rstrip(SubSeq(s, 1, Len(s) - 1), ch) ELSE s

Digits == "0123456789"

DigitVal(c) == (CHOOSE i \in 1..10 : CharAt(Digits, i) = c) - 1

\* python: int(s), for a string of decimal digits
RECURSIVE int(_)
int(s) ==
  IF Len(s) = 0 THEN 0
  ELSE 10 * int(SubSeq(s, 1, Len(s) - 1)) + DigitVal(CharAt(s, Len(s)))

\* python: "%s" % n, for a natural number
RECURSIVE str(_)
str(n) ==
  IF n < 10 THEN CharAt(Digits, n + 1)
  ELSE str(n \div 10) \o CharAt(Digits, (n % 10) + 1)

\* python: sep.join(seq)
RECURSIVE join(_, _)
join(sep, seq) ==
  IF Len(seq) = 0 THEN ""
  ELSE IF Len(seq) = 1 THEN seq[1]
  ELSE seq[1] \o sep \o join(sep, Tail(seq))

\* python: s.split(sep), for a one-character sep
RECURSIVE split(_, _)
split(s, sep) ==
  LET i == Find(s, sep)
  IN IF i = 0 THEN <<s>> ELSE <<SubSeq(s, 1, i - 1)>> \o split(SubSeq(s, i + 1, Len(s)), sep)

\* concatenation of a sequence of sequences (python: yield from, in turn)
RECURSIVE Flatten(_)
Flatten(seqs) ==
  IF Len(seqs) = 0 THEN <<>> ELSE seqs[1] \o Flatten(Tail(seqs))

(* python dict, insertion ordered *)

Keys(d) == [i \in 1..Len(d) |-> d[i][1]]

KeySet(d) == {d[i][1] : i \in 1..Len(d)}

\* d.get(k)
DictGet(d, k) ==
  IF k \in KeySet(d) THEN Some((d[CHOOSE i \in 1..Len(d) : d[i][1] = k])[2]) ELSE None

\* d[k] = v: a new key goes last, a known key keeps its place
DictSet(d, k, v) ==
  IF k \in KeySet(d)
    THEN [i \in 1..Len(d) |-> IF d[i][1] = k THEN <<k, v>> ELSE d[i]]
    ELSE Append(d, <<k, v>>)

(* pathlib.PurePosixPath *)

\* Path(s).parts: the root, then the components that are neither empty nor "."
PathRoot(s) ==
  IF startswith(s, "//") /\ ~startswith(s, "///") THEN <<"//">>
  ELSE IF startswith(s, "/") THEN <<"/">>
  ELSE <<>>

PathParts(s) ==
  PathRoot(s) \o SelectSeq(split(s, "/"), LAMBDA c : c # "" /\ c # ".")

\* Path(s).as_posix()
as_posix(s) ==
  LET root == PathRoot(s)
      comps == SelectSeq(split(s, "/"), LAMBDA c : c # "" /\ c # ".")
  IN IF root = <<>> THEN (IF comps = <<>> THEN "." ELSE join("/", comps))
     ELSE root[1] \o join("/", comps)

----------------------------------------------------------------------------
(* class C: constants *)

SCRIPT_NAME == "homelab-srv"

DEFAULT_BACKUP_FOLDER == "/srv/data/server-backup"

PERSIST == "/srv/persist"

CONFIG_YML == "_config.yml"

SPECIAL_DOCKER_COMPOSE_NAME == <<"syncthing">>

----------------------------------------------------------------------------
(* DCItem and the items of one service.  A service is a record              *)
(* [service_name, environment, ports, volumes]; the last three are the cfg *)
(* lists of the service's yaml mapping (<<>> when the key is absent).       *)

\* DCItem.yaml_source of an item `key` of service `service_name` of unit `dc_name`
yaml_source(dc_name, service_name, key) == dc_name \o ":" \o service_name \o "/" \o key

\* DCEnvironment.by_name: "NAME=value" entries, the value stripped, last entry wins
RECURSIVE by_name_loop(_, _)
by_name_loop(cfg, result) ==
  IF Len(cfg) = 0 THEN result
  ELSE LET p == partition(cfg[1], "=")
       IN by_name_loop(Tail(cfg), DictSet(result, p[1], strip(p[2])))

by_name(cfg) == by_name_loop(cfg, <<>>)

\* one turn of the loop of DCEnvironment.sanity_check, for the expectation kv
EnvProblem(item, names, kv) ==
  LET k == kv[1]
      expected_value == kv[2]
      v == DictGet(names, k)
  IN IF v # None /\ v[1] # expected_value
       THEN << <<item, k \o " should be " \o expected_value \o " (instead of " \o v[1] \o ")">> >>
       ELSE <<>>

\* a check that walks the service's own assignments instead of the expectations
DCEnvironment_sanity_check_declared_order(env, item, cfg) ==
  IF env = None \/ Len(env[1]) = 0 THEN <<>>
  ELSE Flatten([i \in 1..Len(by_name(cfg)) |->
         LET k == by_name(cfg)[i][1]
             expected_value == DictGet(env[1], k)
         IN IF expected_value # None /\ expected_value[1] # by_name(cfg)[i][2]
              THEN << <<item, k \o " should be " \o expected_value[1]
                               \o " (instead of " \o by_name(cfg)[i][2] \o ")">> >>
              ELSE <<>>])

\* DCEnvironment.sanity_check: env is the site's env (None, or an ordered mapping)
DCEnvironment_sanity_check(env, item, cfg) ==
  IF env = None \/ Len(env[1]) = 0 THEN <<>>
  ELSE Flatten([i \in 1..Len(env[1]) |-> EnvProblem(item, by_name(cfg), env[1][i])])

\* DCPorts.host_side and DCVolumes.volumes: "a:b" entries as the mapping a -> b
RECURSIVE colon_map_loop(_, _)
colon_map_loop(cfg, result) ==
  IF Len(cfg) = 0 THEN result
  ELSE LET p == partition(cfg[1], ":")
       IN colon_map_loop(Tail(cfg), DictSet(result, p[1], p[2]))

host_side(cfg) == colon_map_loop(cfg, <<>>)

volumes(cfg) == colon_map_loop(cfg, <<>>)

\* (C.PERSIST / dc_name)
expected_persist(dc_name) == PERSIST \o "/" \o dc_name

\* a vanilla test that compares text instead of path segments
DCVolumes_vanilla_backup_by_prefix(dc_name, cfg) ==
  LET vols == Keys(volumes(cfg))
      n == Cardinality({i \in 1..Len(vols) : startswith(vols[i], expected_persist(dc_name))})
  IN n = Len(vols)

\* DCVolumes.vanilla_backup
DCVolumes_vanilla_backup(dc_name, cfg) ==
  LET vols == Keys(volumes(cfg))
      expected_parts == PathParts(expected_persist(dc_name))
      part_count == Len(expected_parts)
      n == Cardinality({i \in 1..Len(vols) :
             LET vol_parts == PathParts(vols[i])
             IN Len(vol_parts) >= part_count /\ SubSeq(vol_parts, 1, part_count) = expected_parts})
  IN n = Len(vols)

\* one turn of the loop of DCVolumes.sanity_check, for the host path vol
VolumeProblem(dc_name, item, vol) ==
  LET expected_parts == PathParts(expected_persist(dc_name))
      part_count == Len(expected_parts)
      vol_parts == PathParts(vol)
  IN IF Len(vol_parts) < part_count \/ SubSeq(vol_parts, 1, part_count) # expected_parts
       THEN << <<item, "Volume '" \o vol \o "' should be '" \o as_posix(expected_persist(dc_name)) \o "'">> >>
       ELSE <<>>

\* a layout check that does not exempt special units
DCVolumes_sanity_check_special_too(dc_name, is_special, item, cfg) ==
  IF Len(cfg) = 0 THEN <<>>
  ELSE LET vols == Keys(volumes(cfg))
       IN Flatten([i \in 1..Len(vols) |-> VolumeProblem(dc_name, item, vols[i])])

\* DCVolumes.sanity_check
DCVolumes_sanity_check(dc_name, is_special, item, cfg) ==
  IF Len(cfg) = 0 \/ is_special THEN <<>>
  ELSE LET vols == Keys(volumes(cfg))
       IN Flatten([i \in 1..Len(vols) |-> VolumeProblem(dc_name, item, vols[i])])

\* DCService.sanity_check
DCService_sanity_check(env, dc, s) ==
  DCEnvironment_sanity_check(env, yaml_source(dc.dc_name, s.service_name, "environment"), s.environment)
  \o DCVolumes_sanity_check(dc.dc_name, dc.is_special,
                            yaml_source(dc.dc_name, s.service_name, "volumes"), s.volumes)

----------------------------------------------------------------------------
(* SYDC: one docker-compose definition, [dc_name, is_special, services]    *)

\* SYDC.sanity_check
SYDC_sanity_check(env, dc) ==
  Flatten([i \in 1..Len(dc.services) |-> DCService_sanity_check(env, dc, dc.services[i])])

\* SYDC.vanilla_backup, as its truth value (None, returned for a unit without
\* services, is false).  `not service.volumes` tests a DCVolumes object, which
\* defines neither __bool__ nor __len__: it is never true.
SYDC_vanilla_backup(dc) ==
  IF Len(dc.services) > 0
    THEN \A i \in 1..Len(dc.services) :
           ~(FALSE \/ ~DCVolumes_vanilla_backup(dc.dc_name, dc.services[i].volumes))
    ELSE FALSE

----------------------------------------------------------------------------
(* Documents on disk.  A unit document is the `services:` mapping of one   *)
(* docker-compose file, as a sequence of services.  The site document      *)
(* (_config.yml) is [env, run, backup]: env an optional ordered mapping,   *)
(* run an ordered mapping host -> yaml value, backup [folder, per_host,    *)
(* restrict].  A yaml value that runez.flattened() receives is a sequence  *)
(* of scalars.                                                             *)

EmptyCfg ==
  [env |-> None, run |-> <<>>, backup |-> [folder |-> None, per_host |-> <<>>, restrict |-> <<>>]]

\* read_yml(path) or {}: file is None when the path is unset or does not exist
read_yml(file) == IF file = None THEN EmptyCfg ELSE file[1]

\* runez.flattened(value, keep_empty=None, split=sep)
flattened(value, sep) ==
  Flatten([i \in 1..Len(value) |-> SelectSeq(split(value[i], sep), LAMBDA x : x # "")])

\* PurePath.stem: the name without its last suffix
stem(name) ==
  LET dots == {i \in 1..Len(name) : CharAt(name, i) = "."}
      j == IF dots = {} THEN 0 ELSE CHOOSE i \in dots : \A k \in dots : k <= i
  IN IF 1 < j /\ j < Len(name) THEN SubSeq(name, 1, j - 1) ELSE name

\* SYDC.__init__, for the document at parent/name holding `services`; parent
\* is "" for a document of the folder itself, none of which is named
\* docker-compose.yml.  dc_path is kept relative to the folder.
SYDC(parent, name, services) ==
  LET dc_name == IF name = "docker-compose.yml" THEN parent ELSE stem(name)
  IN [dc_name |-> dc_name,
      dc_path |-> IF parent = "" THEN name ELSE parent \o "/" \o name,
      is_special |-> \E i \in 1..Len(SPECIAL_DOCKER_COMPOSE_NAME) : SPECIAL_DOCKER_COMPOSE_NAME[i] = dc_name,
      services |-> services]

\* loops that keep the unit first found under a name
RECURSIVE load_dcs_first_wins(_, _)
load_dcs_first_wins(found, dc_files) ==
  IF Len(found) = 0 THEN dc_files
  ELSE LET f == found[1]
           dc == SYDC(f.parent, f.name, f.services)
       IN load_dcs_first_wins(Tail(found),
            IF dc.dc_name \in KeySet(dc_files) THEN dc_files ELSE DictSet(dc_files, dc.dc_name, dc))

\* the loops of SrvFolder.__init__ over the discovered documents, in glob order
RECURSIVE load_dcs(_, _)
load_dcs(found, dc_files) ==
  IF Len(found) = 0 THEN dc_files
  ELSE LET f == found[1]
           dc == SYDC(f.parent, f.name, f.services)
       IN load_dcs(Tail(found), DictSet(dc_files, dc.dc_name, dc))

\* SYRun.__init__
SYRun(cfg) ==
  [dcs_by_host |-> [i \in 1..Len(cfg.run) |-> <<cfg.run[i][1], flattened(cfg.run[i][2], " ")>>]]

\* SYBackup.__init__
SYBackup(cfg) ==
  [folder |-> IF cfg.backup.folder = None THEN DEFAULT_BACKUP_FOLDER ELSE cfg.backup.folder[1],
   per_host |-> flattened(cfg.backup.per_host, " "),
   restrict |-> cfg.backup.restrict]

\* SrvFolder.__init__.  folder is None or <<path>>; disk is what the folder
\* holds: [is_dir, config, top, sub], top the *.yml documents of the folder
\* and sub the */docker-compose.yml documents, each in glob order.
SrvFolder(folder, disk) ==
  LET cfg == read_yml(IF folder # None /\ disk.is_dir THEN disk.config ELSE None)
      top == SelectSeq(disk.top, LAMBDA f : ~startswith(f.name, "_"))
  IN [folder |-> folder,
      cfg |-> cfg,
      dc_files |-> IF folder # None /\ disk.is_dir THEN load_dcs(top \o disk.sub, <<>>) ELSE <<>>,
      env |-> cfg.env,
      run |-> SYRun(cfg),
      backup |-> SYBackup(cfg)]

\* the path of a document below the folder
DocPath(f) == IF f.parent = "" THEN f.name ELSE f.parent \o "/" \o f.name

\* yaml.load in read_yml raises a YAMLError on a document that does not
\* parse; disk.bad holds the paths of those documents.  read_yml does not
\* catch it, nor do SYDC.__init__ and SrvFolder.__init__.
yaml_load_raises(disk, path) == path \in disk.bad

\* SrvFolder.__init__ ends with an exception: a document it reads does not parse
SrvFolder_raises(folder, disk) ==
  /\ folder # None
  /\ disk.is_dir
  /\ \/ disk.config # None /\ yaml_load_raises(disk, CONFIG_YML)
     \/ \E i \in 1..Len(disk.top) :
          ~startswith(disk.top[i].name, "_") /\ yaml_load_raises(disk, DocPath(disk.top[i]))
     \/ \E i \in 1..Len(disk.sub) : yaml_load_raises(disk, DocPath(disk.sub[i]))

\* SrvFolder.__repr__
SrvFolder_repr(site) == IF site.folder # None THEN as_posix(site.folder[1]) ELSE "SrvFolder"

\* self.cfg_yml
cfg_yml(site) == as_posix(site.folder[1] \o "/" \o CONFIG_YML)

\* SYRun.hostnames
hostnames(site) == Keys(site.run.dcs_by_host)

\* a check that reports an unknown name once, however often it is referred to
dc_name_check_once(site, names, origin) ==
  Flatten([i \in 1..Len(names) |->
    IF names[i] \notin KeySet(site.dc_files) /\ \A j \in 1..(i - 1) : names[j] # names[i]
      THEN << <<SrvFolder_repr(site),
                "DC definition '" \o names[i] \o "' does not exist (referred from " \o origin \o ")">> >>
      ELSE <<>>])

\* SrvFolder.dc_name_check
dc_name_check(site, names, origin) ==
  Flatten([i \in 1..Len(names) |->
    IF names[i] \notin KeySet(site.dc_files)
      THEN << <<SrvFolder_repr(site),
                "DC definition '" \o names[i] \o "' does not exist (referred from " \o origin \o ")">> >>
      ELSE <<>>])

\* a check that takes hosts without units for no hosts
SYRun_sanity_check_no_units(site) ==
  (IF \A i \in 1..Len(site.run.dcs_by_host) : Len(site.run.dcs_by_host[i][2]) = 0
     THEN << <<"run", "no hosts are defined in " \o CONFIG_YML \o " run: section">> >>
     ELSE <<>>)
  \o Flatten([i \in 1..Len(site.run.dcs_by_host) |->
       dc_name_check(site, site.run.dcs_by_host[i][2],
                     CONFIG_YML \o ":run/" \o site.run.dcs_by_host[i][1])])

\* SYRun.sanity_check
SYRun_sanity_check(site) ==
  (IF Len(hostnames(site)) = 0
     THEN << <<"run", "no hosts are defined in " \o CONFIG_YML \o " run: section">> >>
     ELSE <<>>)
  \o Flatten([i \in 1..Len(site.run.dcs_by_host) |->
       dc_name_check(site, site.run.dcs_by_host[i][2],
                     CONFIG_YML \o ":run/" \o site.run.dcs_by_host[i][1])])

\* SYBackup.sanity_check
SYBackup_sanity_check(site) ==
  dc_name_check(site, site.backup.per_host, CONFIG_YML \o ":backup/per_host")
  \o dc_name_check(site, Keys(site.backup.restrict), CONFIG_YML \o ":backup/restrict")

\* every (port, dc_name) that the loops of used_host_ports visit, in order
PortClaims(site) ==
  Flatten([i \in 1..Len(site.dc_files) |->
    LET dc == site.dc_files[i][2]
    IN Flatten([j \in 1..Len(dc.services) |->
         LET ports == Keys(host_side(dc.services[j].ports))
         IN [k \in 1..Len(ports) |-> <<int(ports[k]), dc.dc_name>>]])])

\* result[key].add(value) for each visited pair, on a defaultdict(set)
RECURSIVE add_all(_, _)
add_all(pairs, result) ==
  IF Len(pairs) = 0 THEN result
  ELSE LET key == pairs[1][1]
           old == DictGet(result, key)
       IN add_all(Tail(pairs),
                  DictSet(result, key, (IF old = None THEN {} ELSE old[1]) \cup {pairs[1][2]}))

\* SrvFolder.used_host_ports
used_host_ports(site, by_port) ==
  LET claims == PortClaims(site)
  IN IF by_port THEN add_all(claims, <<>>)
     ELSE add_all([i \in 1..Len(claims) |-> <<claims[i][2], claims[i][1]>>], <<>>)

\* a collision test that counts declarations instead of units
conflicting_ports_by_declaration(site) ==
  SelectSeq(used_host_ports(site, TRUE),
            LAMBDA kv : Cardinality({i \in 1..Len(PortClaims(site)) : PortClaims(site)[i][1] = kv[1]}) > 1)

\* a collision test that only counts units the run assignment gives one host
conflicting_ports_on_one_host(site) ==
  SelectSeq(used_host_ports(site, TRUE),
            LAMBDA kv : \E i \in 1..Len(site.run.dcs_by_host) :
                           Cardinality(kv[2] \cap {site.run.dcs_by_host[i][2][k] :
                                                     k \in 1..Len(site.run.dcs_by_host[i][2])}) > 1)

\* SrvFolder.conflicting_ports, as computed on first access
conflicting_ports(site) ==
  SelectSeq(used_host_ports(site, TRUE), LAMBDA kv : Cardinality(kv[2]) > 1)

\* iteration over a python set of strings: the order follows the string
\* hashes, which are seeded per process; hash_order ranks the names
SetIter(hash_order, names) == SelectSeq(hash_order, LAMBDA x : x \in names)

\* the problem of SrvFolder.sanity_check when no folder is configured
no_folder_problem(site) ==
  <<SrvFolder_repr(site),
    "Run this to configure where your " \o CONFIG_YML \o " is: " \o SCRIPT_NAME \o " set-folder PATH">>

\* the problem of SrvFolder.sanity_check when the site document is missing
no_cfg_yml_problem(site) == <<SrvFolder_repr(site), cfg_yml(site) \o " does not exist">>

\* a traversal that treats "no unit" as final and returns after reporting it
checks_past_config_stop(site, conflicts, hash_order) ==
  IF Len(site.dc_files) = 0
    THEN << <<SrvFolder_repr(site), SrvFolder_repr(site) \o " has no docker-compose files defined">> >>
    ELSE Flatten([i \in 1..Len(site.dc_files) |-> SYDC_sanity_check(site.env, site.dc_files[i][2])])
         \o [i \in 1..Len(conflicts) |->
               <<SrvFolder_repr(site),
                 "Port " \o str(conflicts[i][1]) \o " would conflict on same host for dcs: "
                         \o join(" ", SetIter(hash_order, conflicts[i][2]))>>]
         \o SYRun_sanity_check(site)
         \o SYBackup_sanity_check(site)

\* SrvFolder.sanity_check past its two early returns; conflicts is
\* self.conflicting_ports
checks_past_config(site, conflicts, hash_order) ==
  (IF Len(site.dc_files) = 0
     THEN << <<SrvFolder_repr(site), SrvFolder_repr(site) \o " has no docker-compose files defined">> >>
     ELSE <<>>)
  \o Flatten([i \in 1..Len(site.dc_files) |-> SYDC_sanity_check(site.env, site.dc_files[i][2])])
  \o [i \in 1..Len(conflicts) |->
        <<SrvFolder_repr(site),
          "Port " \o str(conflicts[i][1]) \o " would conflict on same host for dcs: "
                  \o join(" ", SetIter(hash_order, conflicts[i][2]))>>]
  \o SYRun_sanity_check(site)
  \o SYBackup_sanity_check(site)

\* a sanity_check that reports the missing folder and goes on
sanity_check_past_no_folder(site, exists, conflicts, hash_order) ==
  IF site.folder = None
    THEN <<no_folder_problem(site)>> \o checks_past_config(site, conflicts, hash_order)
  ELSE IF ~exists
    THEN <<no_cfg_yml_problem(site)>>
  ELSE checks_past_config(site, conflicts, hash_order)

\* a sanity_check that reports the missing site document and goes on
sanity_check_past_no_cfg_yml(site, exists, conflicts, hash_order) ==
  IF site.folder = None
    THEN <<no_folder_problem(site)>>
  ELSE IF ~exists
    THEN <<no_cfg_yml_problem(site)>> \o checks_past_config(site, conflicts, hash_order)
  ELSE checks_past_config(site, conflicts, hash_order)

\* SrvFolder.sanity_check, the whole generator; exists is cfg_yml.exists()
SrvFolder_sanity_check(site, exists, conflicts, hash_order) ==
  IF site.folder = None
    THEN <<no_folder_problem(site)>>
  ELSE IF ~exists
    THEN <<no_cfg_yml_problem(site)>>
  ELSE checks_past_config(site, conflicts, hash_order)

\* the elements of a list, as a set
Range(seq) == {seq[i] : i \in 1..Len(seq)}

\* list(self.dc_files.values())
dcs_of(site) == [i \in 1..Len(site.dc_files) |-> site.dc_files[i][2]]

\* what a call that may end in runez.abort gives back: the value it returns,
\* or the message it aborts with
Returned(value) == [returned |-> Some(value), aborted |-> None]

Aborted(msg) == [returned |-> None, aborted |-> Some(msg)]

\* a selection that takes "no selector" for "every unit"
get_dcs_default_all(site, names) ==
  IF names = None \/ names = Some("") \/ names \in {Some("all"), Some("*")} THEN Returned(dcs_of(site))
  ELSE IF names = Some("special") THEN Returned(SelectSeq(dcs_of(site), LAMBDA x : x.is_special))
  ELSE IF names = Some("vanilla") THEN Returned(SelectSeq(dcs_of(site), LAMBDA x : SYDC_vanilla_backup(x)))
  ELSE LET given == flattened(<<names[1]>>, ",")
           bad_refs == SelectSeq(given, LAMBDA x : x \notin KeySet(site.dc_files))
       IN IF Len(bad_refs) > 0
            THEN Aborted("Unknown docker-compose refs: " \o join(", ", bad_refs))
            ELSE Returned(SelectSeq(dcs_of(site), LAMBDA x : x.dc_name \in Range(given)))

\* a selection that stops at the first name it does not know
get_dcs_first_bad_ref(site, names) ==
  IF names \in {Some("all"), Some("*")} THEN Returned(dcs_of(site))
  ELSE IF names = Some("special") THEN Returned(SelectSeq(dcs_of(site), LAMBDA x : x.is_special))
  ELSE IF names = Some("vanilla") THEN Returned(SelectSeq(dcs_of(site), LAMBDA x : SYDC_vanilla_backup(x)))
  ELSE IF names = None \/ names = Some("") THEN Returned(SelectSeq(dcs_of(site), LAMBDA x : ~x.is_special))
  ELSE LET given == flattened(<<names[1]>>, ",")
           bad_refs == SelectSeq(given, LAMBDA x : x \notin KeySet(site.dc_files))
       IN IF Len(bad_refs) > 0
            THEN Aborted("Unknown docker-compose refs: " \o bad_refs[1])
            ELSE Returned(SelectSeq(dcs_of(site), LAMBDA x : x.dc_name \in Range(given)))

\* SrvFolder.get_dcs(names): names is None when the argument is not given
get_dcs(site, names) ==
  IF names \in {Some("all"), Some("*")} THEN Returned(dcs_of(site))
  ELSE IF names = Some("special") THEN Returned(SelectSeq(dcs_of(site), LAMBDA x : x.is_special))
  ELSE IF names = Some("vanilla") THEN Returned(SelectSeq(dcs_of(site), LAMBDA x : SYDC_vanilla_backup(x)))
  ELSE IF names = None \/ names = Some("") THEN Returned(SelectSeq(dcs_of(site), LAMBDA x : ~x.is_special))
  ELSE LET given == flattened(<<names[1]>>, ",")
           bad_refs == SelectSeq(given, LAMBDA x : x \notin KeySet(site.dc_files))
       IN IF Len(bad_refs) > 0
            THEN Aborted("Unknown docker-compose refs: " \o join(", ", bad_refs))
            ELSE Returned(SelectSeq(dcs_of(site), LAMBDA x : x.dc_name \in Range(given)))

\* Path(a) / b, for a relative b
PathJoin(a, b) == IF startswith(b, "/") THEN as_posix(b) ELSE as_posix(a \o "/" \o b)

\* a destination that is the same on every host
backup_destination_shared(site, hostname, dc) == PathJoin(site.backup.folder, dc.dc_name)

\* SYBackup.backup_destination(dc); hostname is GSRV.hostname
backup_destination(site, hostname, dc) ==
  LET dest == as_posix(site.backup.folder)
      per == IF dc.dc_name \in Range(site.backup.per_host) THEN PathJoin(dest, hostname) ELSE dest
  IN PathJoin(per, dc.dc_name)

\* a selection that returns the hosts it knows and passes over the others
get_hosts_known_only(site, names) ==
  IF names = None \/ names = Some("") \/ names \in {Some("all"), Some("*")} THEN Returned(hostnames(site))
  ELSE LET given == flattened(<<names[1]>>, ",")
       IN Returned(SelectSeq(given, LAMBDA x : x \in Range(hostnames(site))))

\* SrvFolder.get_hosts(names): names is None when the argument is not given
get_hosts(site, names) ==
  IF names = None \/ names = Some("") \/ names \in {Some("all"), Some("*")} THEN Returned(hostnames(site))
  ELSE LET given == flattened(<<names[1]>>, ",")
           bad_refs == SelectSeq(given, LAMBDA x : x \notin Range(hostnames(site)))
       IN IF Len(bad_refs) > 0
            THEN Aborted("Host(s) not configured: " \o join(", ", bad_refs))
            ELSE Returned(given)

\* the orders a set can be gone through in
Perms(S) == {f \in [1..Cardinality(S) -> S] : \A i, j \in 1..Cardinality(S) : i # j => f[i] # f[j]}

\* python's order of str, by code point; the names here are lower case
Alphabet == "-0123456789_abcdefghijklmnopqrstuvwxyz"

CharRank(c) == CHOOSE i \in 1..Len(Alphabet) : CharAt(Alphabet, i) = c

RECURSIVE StrLess(_, _)
StrLess(x, y) ==
  IF Len(y) = 0 THEN FALSE
  ELSE IF Len(x) = 0 THEN TRUE
  ELSE IF CharAt(x, 1) = CharAt(y, 1) THEN StrLess(Tail(x), Tail(y))
  ELSE CharRank(CharAt(x, 1)) < CharRank(CharAt(y, 1))

\* sorted(names) of a list of names: equal names stay next to each other
sorted(names) ==
  LET S == Range(names)
      f == CHOOSE g \in Perms(S) : \A i, k \in 1..Cardinality(S) : i < k => StrLess(g[i], g[k])
  IN Flatten([i \in 1..Cardinality(S) |-> SelectSeq(names, LAMBDA x : x = f[i])])

\* SYRun.dc_names_for_host(hostname) or []
should_run(site, host) ==
  IF DictGet(site.run.dcs_by_host, host) = None THEN <<>> ELSE DictGet(site.run.dcs_by_host, host)[1]

----------------------------------------------------------------------------
(* What a command does on a host.  w is the host the process runs on:      *)
(* [executor, host, dry, dirs, newer]: GSRV.is_executor, GSRV.hostname,    *)
(* runez.DRYRUN, the directories that exist, and whether docker pull       *)
(* reports a newer image.  Each operation gives [out, dirs]: the entries   *)
(* it adds to the run ([kind, host, unit, argv]) and the directories that  *)
(* exist afterwards.                                                       *)

Cmd(kind, host, unit, argv) == [kind |-> kind, host |-> host, unit |-> unit, argv |-> argv]

\* Path.is_dir(), Path.exists(), os.path.isdir(): a directory exists along
\* with its ancestors.  dirs and path are paths as as_posix() writes them.
is_dir(dirs, path) ==
  \E d \in dirs : d = path \/ startswith(d, rstrip(path, "/") \o "/")

\* a failed `assert GSRV.is_executor`
AssertionError(w, unit) == Cmd("AssertionError", w.host, unit, <<>>)

\* run_docker(*args)
run_docker(w, unit, args) ==
  IF ~w.executor THEN <<AssertionError(w, unit)>>
  ELSE <<Cmd("docker", w.host, unit, args)>>

\* slash_trail(path, trail)
slash_trail(path, trail) == IF trail THEN rstrip(path, "/") \o "/" ELSE rstrip(path, "/")

\* run_rsync(src, dest, sudo, env), with the directories that exist when it
\* is called
run_rsync(w, dirs, unit, src, dest, sudo, env) ==
  LET chown == IF env # None /\ Len(env[1]) > 0 /\ "PUID" \in KeySet(env[1]) /\ "PGID" \in KeySet(env[1])
                 THEN <<"--chown=" \o DictGet(env[1], "PUID")[1] \o ":" \o DictGet(env[1], "PGID")[1]>>
                 ELSE <<>>
      cmd == (IF sudo THEN <<"sudo">> ELSE <<>>) \o <<"rsync", "-rlptJ", "--delete">> \o chown
      need_trail == is_dir(dirs, src)
  IN Cmd("rsync", w.host, unit, cmd \o <<slash_trail(src, need_trail), slash_trail(dest, need_trail)>>)

\* SYDC.run_docker_compose(*args)
run_docker_compose(site, w, dc, args) ==
  Cmd("docker-compose", w.host, dc.dc_name, <<"-f", PathJoin(site.folder[1], dc.dc_path)>> \o args)

\* SYDC.images
images(dc) == [i \in 1..Len(dc.services) |-> dc.services[i].image]

\* the sub-paths SYDC.backup goes through
configured_paths(site, dc) ==
  LET configured == DictGet(site.backup.restrict, dc.dc_name)
      flat == IF configured = None THEN <<>> ELSE flattened(configured[1], " ")
  IN IF Len(flat) = 0 THEN <<"">> ELSE flat

\* F of the value of e, which is computed once
With(e, F(_)) == CHOOSE y \in {F(x) : x \in {e}} : TRUE

\* what an operation did when it did nothing
nothing(dirs) == [out |-> <<>>, dirs |-> dirs]

\* entries, then what the operation r did
then(entries, r) == [out |-> entries \o r.out, dirs |-> r.dirs]

\* what the operation r did, then entries
before(r, entries) == [out |-> r.out \o entries, dirs |-> r.dirs]

\* a turn that copies from the persisted path to the backup whatever the direction asked
backup_step_one_way(site, w, dc, invert, auto, persisted, kept, dirs) ==
  LET src == persisted
      dest == kept
      env == IF invert THEN None ELSE site.env
      made == IF w.dry THEN dirs ELSE dirs \cup {dest}
  IN IF (w.dry \/ is_dir(dirs, persisted)) /\ (~auto \/ ~is_dir(dirs, dest))
       THEN [out |-> <<Cmd("ensure_folder", w.host, dc.dc_name, <<dest>>),
                       run_rsync(w, made, dc.dc_name, src, dest, TRUE, env)>>,
             dirs |-> made]
       ELSE nothing(dirs)

\* one turn of the loop of SYDC.backup, for the sub-path persisted in
\* `persisted` and backed up in `kept`.  The first test is made on the
\* persisted path, before source and destination are swapped.
backup_step(site, w, dc, invert, auto, persisted, kept, dirs) ==
  LET src == IF invert THEN kept ELSE persisted
      dest == IF invert THEN persisted ELSE kept
      env == IF invert THEN None ELSE site.env
      made == IF w.dry THEN dirs ELSE dirs \cup {dest}
  IN IF (w.dry \/ is_dir(dirs, persisted)) /\ (~auto \/ ~is_dir(dirs, dest))
       THEN [out |-> <<Cmd("ensure_folder", w.host, dc.dc_name, <<dest>>),
                       run_rsync(w, made, dc.dc_name, src, dest, TRUE, env)>>,
             dirs |-> made]
       ELSE nothing(dirs)

\* the loop of SYDC.backup over the configured sub-paths
RECURSIVE backup_loop(_, _, _, _, _, _, _)
backup_loop(site, w, dc, invert, auto, configured, dirs) ==
  IF Len(configured) = 0 THEN nothing(dirs)
  ELSE With(backup_step(site, w, dc, invert, auto,
                        PathJoin(PathJoin(PERSIST, dc.dc_name), configured[1]),
                        PathJoin(backup_destination(site, w.host, dc), configured[1]),
                        dirs),
            LAMBDA step : then(step.out, backup_loop(site, w, dc, invert, auto, Tail(configured), step.dirs)))

\* a backup that does not look at what kind of unit it is given
SYDC_backup_any_unit(site, w, dc, invert, auto) ==
  IF ~w.executor THEN [out |-> <<AssertionError(w, dc.dc_name)>>, dirs |-> w.dirs]
  ELSE backup_loop(site, w, dc, invert, auto, configured_paths(site, dc), w.dirs)

\* SYDC.backup(invert, auto)
SYDC_backup(site, w, dc, invert, auto) ==
  IF ~w.executor THEN [out |-> <<AssertionError(w, dc.dc_name)>>, dirs |-> w.dirs]
  ELSE IF dc.is_special
    THEN [out |-> IF auto THEN <<>>
                  ELSE <<Cmd("info", w.host, dc.dc_name,
                             <<"Not " \o (IF invert THEN "restoring" ELSE "backing up") \o " '"
                               \o dc.dc_name \o "': special container">>)>>,
          dirs |-> w.dirs]
  ELSE IF ~SYDC_vanilla_backup(dc)
    THEN [out |-> IF auto THEN <<>>
                  ELSE <<Cmd("info", w.host, dc.dc_name,
                             <<"Not " \o (IF invert THEN "restoring" ELSE "backing up") \o " '"
                               \o dc.dc_name \o "': it does NOT use volume "
                               \o PERSIST \o "/" \o dc.dc_name>>)>>,
          dirs |-> w.dirs]
  ELSE backup_loop(site, w, dc, invert, auto, configured_paths(site, dc), w.dirs)

\* SYDC.pull_images(): [out, updated]
pull_images(w, dc) ==
  [out |-> Flatten([i \in 1..Len(images(dc)) |-> run_docker(w, dc.dc_name, <<"pull", images(dc)[i]>>)]),
   updated |-> IF w.dry \/ w.newer THEN Len(images(dc)) ELSE 0]

\* SYDC.restore(auto)
SYDC_restore(site, w, dc, auto) == SYDC_backup(site, w, dc, TRUE, auto)

\* SYDC.restart()
SYDC_restart(site, w, dc) ==
  IF ~w.executor THEN [out |-> <<AssertionError(w, dc.dc_name)>>, dirs |-> w.dirs]
  ELSE [out |-> <<run_docker_compose(site, w, dc, <<"restart">>)>>, dirs |-> w.dirs]

\* SYDC.start()
SYDC_start(site, w, dc) ==
  IF ~w.executor THEN [out |-> <<AssertionError(w, dc.dc_name)>>, dirs |-> w.dirs]
  ELSE [out |-> <<run_docker_compose(site, w, dc, <<"start">>)>>, dirs |-> w.dirs]

\* a stop that saves the unit's files while its containers still run
SYDC_stop_backup_first(site, w, dc) ==
  IF ~w.executor THEN [out |-> <<AssertionError(w, dc.dc_name)>>, dirs |-> w.dirs]
  ELSE before(SYDC_backup(site, w, dc, FALSE, FALSE), <<run_docker_compose(site, w, dc, <<"stop">>)>>)

\* SYDC.stop()
SYDC_stop(site, w, dc) ==
  IF ~w.executor THEN [out |-> <<AssertionError(w, dc.dc_name)>>, dirs |-> w.dirs]
  ELSE then(<<run_docker_compose(site, w, dc, <<"stop">>)>>, SYDC_backup(site, w, dc, FALSE, FALSE))

\* an upgrade that goes on whether or not an image was updated
upgrade_pulled_always(site, w, dc, force, pulled) ==
  then(pulled.out \o <<run_docker_compose(site, w, dc, <<"down">>)>>,
       before(SYDC_backup(site, w, dc, FALSE, FALSE),
              run_docker(w, dc.dc_name, <<"image", "prune", "-f">>)
              \o <<run_docker_compose(site, w, dc, <<"up", "-d">>)>>))

\* SYDC.upgrade(force), once pull_images() gave `pulled`
upgrade_pulled(site, w, dc, force, pulled) ==
  IF ~force /\ pulled.updated = 0
    THEN [out |-> pulled.out \o <<Cmd("print", w.host, dc.dc_name,
                                      <<"No new docker image available for " \o dc.dc_name>>)>>,
          dirs |-> w.dirs]
    ELSE then(pulled.out \o <<run_docker_compose(site, w, dc, <<"down">>)>>,
              before(SYDC_backup(site, w, dc, FALSE, FALSE),
                     run_docker(w, dc.dc_name, <<"image", "prune", "-f">>)
                     \o <<run_docker_compose(site, w, dc, <<"up", "-d">>)>>))

\* SYDC.upgrade(force)
SYDC_upgrade(site, w, dc, force) ==
  IF ~w.executor THEN [out |-> <<AssertionError(w, dc.dc_name)>>, dirs |-> w.dirs]
  ELSE With(pull_images(w, dc), LAMBDA pulled : upgrade_pulled(site, w, dc, force, pulled))

\* f = getattr(dc, command); f(*args, **kwargs)
call_method(site, w, dc, command, force) ==
  CASE command = "start" -> SYDC_start(site, w, dc)
    [] command = "stop" -> SYDC_stop(site, w, dc)
    [] command = "restart" -> SYDC_restart(site, w, dc)
    [] command = "upgrade" -> SYDC_upgrade(site, w, dc, force)
    [] command = "backup" -> SYDC_backup(site, w, dc, FALSE, FALSE)
    [] command = "restore" -> SYDC_restore(site, w, dc, FALSE)

\* a turn that calls the unit's method on whatever host it is
run_unit_any_host(site, w, dc, command, force) ==
  then(<<Cmd("local", w.host, dc.dc_name, <<command>>)>>, call_method(site, w, dc, command, force))

\* one turn of the loop of CliTarget.run on an executor: the unit's method of
\* the command's name is called for a unit this host runs (a "local" entry,
\* then what the method did), a line is logged for another
run_unit(site, w, dc, command, force) ==
  IF dc.dc_name \notin Range(should_run(site, w.host))
    THEN [out |-> <<Cmd("info", w.host, dc.dc_name,
                        <<"'" \o dc.dc_name \o "' is not configured to run on host '" \o w.host \o "'">>)>>,
          dirs |-> w.dirs]
    ELSE then(<<Cmd("local", w.host, dc.dc_name, <<command>>)>>, call_method(site, w, dc, command, force))

\* the executor branch of CliTarget.run, from the i-th selected unit on
RECURSIVE run_on_executor(_, _, _, _, _, _)
run_on_executor(site, w, t, force, i, dirs) ==
  IF i > Len(t.dcs) THEN nothing(dirs)
  ELSE With(run_unit(site, [w EXCEPT !.dirs = dirs], t.dcs[i], t.command, force),
            LAMBDA unit : then(unit.out, run_on_executor(site, w, t, force, i + 1, unit.dirs)))

\* run_ssh(hostname, SCRIPT_NAME, command, given, *args): one ssh command to
\* the host
run_ssh(host, t, args) ==
  Cmd("ssh", host, "", <<SCRIPT_NAME, t.command>> \o t.given \o args)

\* the orchestrator branch of CliTarget.run; a true flag among the keyword
\* arguments is passed on as --<name>
run_on_orchestrator(site, t, force) ==
  LET args == IF force THEN <<"--force">> ELSE <<>>
  IN Flatten([i \in 1..Len(t.hosts) |->
       IF \E k \in 1..Len(t.dcs) : t.dcs[k].dc_name \in Range(should_run(site, t.hosts[i]))
         THEN <<run_ssh(t.hosts[i], t, args)>>
         ELSE <<>>])

\* a run that calls the units' methods whatever the role of the host
CliTarget_run_whatever_role(site, w, t, force) ==
  run_on_executor(site, w, t, force, 1, w.dirs)

\* CliTarget.run(*args, **kwargs)
CliTarget_run(site, w, t, force) ==
  IF w.executor THEN run_on_executor(site, w, t, force, 1, w.dirs)
  ELSE [out |-> run_on_orchestrator(site, t, force), dirs |-> w.dirs]

\* SYDC.is_running, with the images docker ps lists as running: one docker
\* ps for each image of the unit, up to the first that is listed
is_running(w, dc, running) ==
  LET hit == {i \in 1..Len(images(dc)) : images(dc)[i] \in running}
      n == IF hit = {} THEN Len(images(dc)) ELSE CHOOSE i \in hit : \A k \in hit : i <= k
  IN [out |-> Flatten([i \in 1..n |-> run_docker(w, dc.dc_name, <<"ps">>)]),
      status |-> hit # {}]

\* the rows of the executor's table of ps, after the commands that fill them
ps_rows(site, w, running) ==
  LET dc_names == sorted(should_run(site, w.host))
  IN Flatten([i \in 1..Len(dc_names) |->
       LET dc == DictGet(site.dc_files, dc_names[i])
       IN IF dc = None THEN <<>>
          ELSE With(is_running(w, dc[1], running),
                    LAMBDA info : info.out \o <<Cmd("print", w.host, dc_names[i],
                                                    <<IF info.status THEN "running" ELSE "not running">>)>>)])

\* the subcommand ps: the table on an executor, ps sent to every host of the
\* run assignment on an orchestrator
ps(site, w, running) ==
  IF w.executor THEN ps_rows(site, w, running)
  ELSE [i \in 1..Len(hostnames(site)) |->
          Cmd("ssh", hostnames(site)[i], "", <<SCRIPT_NAME, "--color", "ps">>)]

\* what docker ps can list on the host: nothing, one image of a unit the
\* host runs, or all of them
RunningChoices(site, host) ==
  LET mine == UNION {IF DictGet(site.dc_files, u) = None THEN {}
                     ELSE Range(images(DictGet(site.dc_files, u)[1])) : u \in Range(should_run(site, host))}
  IN {{}, mine} \cup {{x} : x \in mine}

\* the commands of a run that were executed: those a failure can end
Executed(out) == {i \in 1..Len(out) : out[i].kind \in {"docker", "docker-compose", "rsync"}}

\* where a run ends: at the first failed assertion, or at the fail-th
\* executed command when that one fails (runez.run aborts); 0 when it ends
\* by itself
ends_at(out, fail) ==
  LET executed == Executed(out)
      stops == {i \in 1..Len(out) : out[i].kind = "AssertionError"}
                 \cup {i \in executed : fail > 0 /\ Cardinality({k \in executed : k <= i}) = fail}
  IN IF stops = {} THEN 0 ELSE CHOOSE i \in stops : \A k \in stops : i <= k

\* the directories the kept part of a run made (runez.ensure_folder)
ensured(out) == {out[i].argv[1] : i \in {k \in 1..Len(out) : out[k].kind = "ensure_folder"}}

\* the selected units whose files a backup or a restore on this host looks at
with_files(site, t, host) ==
  {k \in 1..Len(t.dcs) : /\ t.dcs[k].dc_name \in Range(should_run(site, host))
                         /\ ~t.dcs[k].is_special
                         /\ SYDC_vanilla_backup(t.dcs[k])}

\* the directories their sub-paths are persisted in, or backed up to
unit_dirs(site, t, host, persisted) ==
  UNION { {IF persisted THEN PathJoin(PathJoin(PERSIST, t.dcs[i].dc_name), rel)
                        ELSE PathJoin(backup_destination(site, host, t.dcs[i]), rel) :
             rel \in Range(configured_paths(site, t.dcs[i]))} :
          i \in with_files(site, t, host) }

\* the first sub-path of each of these units, persisted
first_dirs(site, t, host) ==
  {PathJoin(PathJoin(PERSIST, t.dcs[i].dc_name), configured_paths(site, t.dcs[i])[1]) :
     i \in with_files(site, t, host)}

\* what the host's file system can hold when a command runs: nothing, the
\* persisted directories, the backups, both, or the backups and each unit's
\* first persisted sub-path
DirChoices(site, t, host) ==
  LET persisted == unit_dirs(site, t, host, TRUE)
      kept == unit_dirs(site, t, host, FALSE)
  IN { {}, persisted, kept, persisted \cup kept, kept \cup first_dirs(site, t, host) }

----------------------------------------------------------------------------
(* The documents the model draws its folders from *)

DocA1 ==
  << [service_name |-> "web", image |-> "nginx", environment |-> <<"PUID=1001", "TZ=UTC">>,
      ports |-> <<"443:443">>, volumes |-> <<"/srv/persist/a/config:/config">>],
     [service_name |-> "cache", image |-> "redis", environment |-> <<>>, ports |-> <<>>, volumes |-> <<>>] >>

DocA2 ==
  << [service_name |-> "web", image |-> "nginx", environment |-> <<"PUID=1002", "PGID= 1001 ", "PUID=1003">>,
      ports |-> <<"80:80", "09000:9000">>, volumes |-> <<"/srv/persist/ab/c:/x", "/srv/persist/a:/y">>],
     [service_name |-> "db", image |-> "postgres", environment |-> <<>>, ports |-> <<"9000">>, volumes |-> <<>>] >>

DocB1 ==
  << [service_name |-> "app", image |-> "app:1", environment |-> <<"TZ=PST", "PUID=1002">>,
      ports |-> <<"0443:443", "80">>,
      volumes |-> <<"/srv//persist/./b/d:/y", "/srv/persist/b:/z">>] >>

DocB2 ==
  << [service_name |-> "app", image |-> "app:1", environment |-> <<"TZ=UTC">>, ports |-> <<>>,
      volumes |-> <<"/srv/persist/b/data:/data">>],
     [service_name |-> "aux", image |-> "aux:2", environment |-> <<"PGID=1001">>, ports |-> <<"8384:80">>,
      volumes |-> <<"/data/b:/x", "srv/persist/b:/rel", "/srv/persist/b/ok:/ok">>] >>

DocS1 ==
  << [service_name |-> "sync", image |-> "syncthing/syncthing", environment |-> <<"PUID=1002">>,
      ports |-> <<"8384:8384", "443">>, volumes |-> <<"/data/sync:/sync">>] >>

\* documents directly in the folder (*.yml)
TopPool ==
  { [parent |-> "", name |-> "a.yml", services |-> DocA1],
    [parent |-> "", name |-> "a.yml", services |-> DocA2],
    [parent |-> "", name |-> "b.yml", services |-> DocB1],
    [parent |-> "", name |-> "b.yml", services |-> DocB2],
    [parent |-> "", name |-> "syncthing.yml", services |-> DocS1] }

\* documents one folder down (*/docker-compose.yml); this one has no service
SubPool ==
  { [parent |-> "a", name |-> "docker-compose.yml", services |-> <<>>] }

Cfg1 ==
  [env |-> Some(<< <<"PUID", "1001">>, <<"TZ", "UTC">> >>),
   run |-> << <<"h1", <<"a b">>>>, <<"h2", <<"b">>>> >>,
   backup |-> [folder |-> None, per_host |-> <<"a">>,
               restrict |-> << <<"b", <<"data logs">>>>, <<"a", <<"config logs">>>> >>]]

Cfg2 ==
  [env |-> Some(<< <<"TZ", "UTC">>, <<"PGID", "1001">>, <<"PUID", "1001">> >>),
   run |-> << <<"h2", <<"zz  zz b">>>>, <<"h1", <<"a", "should zz">>>> >>,
   backup |-> [folder |-> Some("/bk"), per_host |-> <<"zz b zz">>,
               restrict |-> << <<"would", <<"x">>>>, <<"a", <<"cfg">>>> >>]]

Cfg3 ==
  [env |-> Some(<<>>),
   run |-> << <<"h1", <<>>>> >>,
   backup |-> [folder |-> None, per_host |-> <<>>, restrict |-> <<>>]]

Cfg4 ==
  [env |-> None,
   run |-> <<>>,
   backup |-> [folder |-> None, per_host |-> <<"zz a">>, restrict |-> <<>>]]

\* a site that runs the special unit, without restricted sub-paths
Cfg5 ==
  [env |-> None,
   run |-> << <<"h1", <<"syncthing", "b">>>>, <<"h2", <<"syncthing">>>> >>,
   backup |-> [folder |-> Some("/bk"), per_host |-> <<>>, restrict |-> <<>>]]

\* site documents: an empty one, and five with content
ConfigPool == {EmptyCfg, Cfg1, Cfg2, Cfg3, Cfg4, Cfg5}

Folders == {"/srv/run", "/home/should/lab"}

ConfigFile == [parent |-> "", name |-> CONFIG_YML, services |-> <<>>]

SeqsUpTo(S, n) == UNION {[1..k -> S] : k \in 0..n}

\* no two documents of one directory listing share a path
DistinctPaths(seq) ==
  \A i, j \in 1..Len(seq) : i # j => <<seq[i].parent, seq[i].name>> # <<seq[j].parent, seq[j].name>>

NoDisk == [is_dir |-> FALSE, config |-> None, top |-> <<>>, sub |-> <<>>, bad |-> {}]

\* what a folder can hold
Disks ==
  {NoDisk} \cup
  UNION { { [is_dir |-> TRUE, config |-> c,
             top |-> IF c = None THEN t ELSE t \o <<ConfigFile>>, sub |-> u, bad |-> b] :
             b \in {{}} \cup {{DocPath(f)} : f \in Range(t \o u) \cup (IF c = None THEN {} ELSE {ConfigFile})} } :
      c \in {None} \cup {Some(x) : x \in ConfigPool},
      t \in {x \in SeqsUpTo(TopPool, MaxUnits) : DistinctPaths(x)},
      u \in {x \in SeqsUpTo(SubPool, MaxUnits) : DistinctPaths(x)} }

\* what stands for the site when its constructor raised: there is no object
NoSite == [folder |-> None, cfg |-> EmptyCfg, dc_files |-> <<>>, env |-> None,
           run |-> SYRun(EmptyCfg), backup |-> SYBackup(EmptyCfg)]

----------------------------------------------------------------------------
(* State *)

VARIABLES
  disk,        \* what the root folder holds
  site,        \* the SrvFolder built from it (GSRV.bcfg)
  hash_order,  \* iteration rank of the unit names in a set (per process)
  cp_cache,    \* the memoized conflicting_ports: None until first access
  ret,         \* the call made on the site and what it gave back, NoCall between calls
  pc,          \* "raised" when the constructor failed; the command line: "start",
               \* "crashed", "aborted" (by main), "ready", "target_aborted",
               \* "bad_parameter", "targeted", "done"
  invoked,     \* the subcommand main was invoked for
  log,         \* what main logged: [level, item, msg] records
  is_executor, \* GSRV.is_executor: None until main sets it
  hostname,    \* GSRV.hostname: None until main sets it
  DRYRUN,      \* runez.DRYRUN, the -n flag
  abort_msg,   \* the message of the runez.abort or click.BadParameter that ended the command, if any
  target,      \* the CliTarget of the subcommand: None until its callback ran
  ran,         \* what target.run() did: ssh commands sent, unit methods called,
               \* and the commands, log lines and folders these methods made
  world,       \* what the command met: [dirs, newer, force, fail, running], the
               \* directories that existed, whether docker pull found a newer
               \* image, the --force flag, which executed command failed, and
               \* the images docker ps listed
  dirs         \* the directories that exist after target.run()

vars == <<disk, site, hash_order, cp_cache, ret, pc, invoked, log, is_executor, hostname, DRYRUN,
         abort_msg, target, ran, world, dirs>>

\* what main leaves alone when it stops early, and every call on the model
cli == <<pc, invoked, log, is_executor, hostname, DRYRUN, abort_msg, target, ran, world, dirs>>

NoCall == [op |-> "", arg |-> <<>>, val |-> <<>>]

NoWorld == [dirs |-> {}, newer |-> FALSE, force |-> FALSE, fail |-> 0, running |-> {}]

Init ==
  /\ \E folder \in {None} \cup {Some(f) : f \in Folders} :
       \E d \in Disks :
         /\ folder = None => d = NoDisk
         /\ Len(d.top) + Len(d.sub) <= MaxUnits + (IF d.config = None THEN 0 ELSE 1)
         /\ disk = d
         /\ site = IF SrvFolder_raises(folder, d) THEN NoSite ELSE SrvFolder(folder, d)
         /\ pc = IF SrvFolder_raises(folder, d) THEN "raised" ELSE "start"
  /\ hash_order \in Perms(KeySet(site.dc_files))
  /\ cp_cache = None
  /\ ret = NoCall
  /\ invoked = ""
  /\ log = <<>>
  /\ is_executor = None
  /\ hostname = None
  /\ DRYRUN = FALSE
  /\ abort_msg = None
  /\ target = None
  /\ ran = <<>>
  /\ world = NoWorld
  /\ dirs = {}

\* cfg_yml.exists(), asked of the disk when sanity_check runs
cfg_yml_exists == site.folder # None /\ disk.is_dir /\ disk.config # None

\* a memo that is filled with every used port
cached_conflicting_ports_unfiltered == IF cp_cache # None THEN cp_cache[1] ELSE used_host_ports(site, TRUE)

\* self.conflicting_ports: the memo when there is one, else computed now
cached_conflicting_ports == IF cp_cache # None THEN cp_cache[1] ELSE conflicting_ports(site)

----------------------------------------------------------------------------
(* Calls on the model, as the tests and the command line make them *)

\* the caller is done with what the last call gave back and goes on to its
\* next statement
Return ==
  /\ pc = "start"
  /\ ret # NoCall
  /\ ret' = NoCall
  /\ UNCHANGED <<disk, site, hash_order, cp_cache, cli>>

\* list(site.sanity_check()); the generator touches conflicting_ports only
\* past its two early returns
SanityCheck ==
  /\ pc = "start"
  /\ ret = NoCall
  /\ ret' = [op |-> "sanity_check", arg |-> <<>>,
             val |-> SrvFolder_sanity_check(site, cfg_yml_exists, cached_conflicting_ports, hash_order)]
  /\ cp_cache' = IF site.folder # None /\ cfg_yml_exists THEN Some(cached_conflicting_ports) ELSE cp_cache
  /\ UNCHANGED <<disk, site, hash_order, cli>>

\* site.conflicting_ports
ConflictingPorts ==
  /\ pc = "start"
  /\ ret = NoCall
  /\ ret' = [op |-> "conflicting_ports", arg |-> <<>>, val |-> cached_conflicting_ports]
  /\ cp_cache' = Some(cached_conflicting_ports)
  /\ UNCHANGED <<disk, site, hash_order, cli>>

\* site.used_host_ports(by_port)
UsedHostPorts ==
  /\ pc = "start"
  /\ ret = NoCall
  /\ \E by_port \in BOOLEAN :
       ret' = [op |-> "used_host_ports", arg |-> <<by_port>>, val |-> used_host_ports(site, by_port)]
  /\ UNCHANGED <<disk, site, hash_order, cp_cache, cli>>

\* dc.vanilla_backup, for a unit of the site
VanillaBackup ==
  /\ pc = "start"
  /\ ret = NoCall
  /\ \E i \in 1..Len(site.dc_files) :
       ret' = [op |-> "vanilla_backup", arg |-> <<i>>, val |-> SYDC_vanilla_backup(site.dc_files[i][2])]
  /\ UNCHANGED <<disk, site, hash_order, cp_cache, cli>>

\* service.environment.sanity_check(), for a service of a unit
EnvironmentCheck ==
  /\ pc = "start"
  /\ ret = NoCall
  /\ \E i \in 1..Len(site.dc_files) :
       \E j \in 1..Len(site.dc_files[i][2].services) :
         LET dc == site.dc_files[i][2]
             s == dc.services[j]
         IN ret' = [op |-> "environment.sanity_check", arg |-> <<i, j>>,
                    val |-> DCEnvironment_sanity_check(site.env,
                              yaml_source(dc.dc_name, s.service_name, "environment"), s.environment)]
  /\ UNCHANGED <<disk, site, hash_order, cp_cache, cli>>

\* service.volumes.sanity_check(), for a service of a unit
VolumesCheck ==
  /\ pc = "start"
  /\ ret = NoCall
  /\ \E i \in 1..Len(site.dc_files) :
       \E j \in 1..Len(site.dc_files[i][2].services) :
         LET dc == site.dc_files[i][2]
             s == dc.services[j]
         IN ret' = [op |-> "volumes.sanity_check", arg |-> <<i, j>>,
                    val |-> DCVolumes_sanity_check(dc.dc_name, dc.is_special,
                              yaml_source(dc.dc_name, s.service_name, "volumes"), s.volumes)]
  /\ UNCHANGED <<disk, site, hash_order, cp_cache, cli>>

\* what get_dcs is asked for: nothing, the keywords, and lists of names
DcSelectors ==
  {None, Some(""), Some("all"), Some("*"), Some("special"), Some("vanilla"),
   Some("a"), Some("b,a"), Some("syncthing,,a,a"), Some("zz,a,b,yy"), Some("b,zz")}

\* site.get_dcs(names)
GetDcs ==
  /\ pc = "start"
  /\ ret = NoCall
  /\ \E names \in DcSelectors :
       ret' = [op |-> "get_dcs", arg |-> <<names>>, val |-> get_dcs(site, names)]
  /\ UNCHANGED <<disk, site, hash_order, cp_cache, cli>>

\* what get_hosts is asked for
HostSelectors == {None, Some("all"), Some("*"), Some("h1,h2"), Some("h1,,h1"), Some("h9,h1,h8")}

\* site.get_hosts(names)
GetHosts ==
  /\ pc = "start"
  /\ ret = NoCall
  /\ \E names \in HostSelectors :
       ret' = [op |-> "get_hosts", arg |-> <<names>>, val |-> get_hosts(site, names)]
  /\ UNCHANGED <<disk, site, hash_order, cp_cache, cli>>

\* the hosts the destination is asked on
BackupHosts == {"h1", "h2"}

\* site.backup.backup_destination(dc) on a host, for a unit of the site
BackupDestination ==
  /\ pc = "start"
  /\ ret = NoCall
  /\ \E i \in 1..Len(site.dc_files), h \in BackupHosts :
       ret' = [op |-> "backup_destination", arg |-> <<i, h>>,
               val |-> backup_destination(site, h, site.dc_files[i][2])]
  /\ UNCHANGED <<disk, site, hash_order, cp_cache, cli>>

----------------------------------------------------------------------------
(* The command line *)

\* subcommands main is invoked for: a lifecycle one, and one exempt from the check
Subcommands == {"stop", "meta"}

\* the subcommands that take a target and call target.run()
Lifecycle == {"start", "stop", "restart", "upgrade", "backup", "restore"}

\* values of --simulate ("" when the option is not given)
Simulations == {"", ":h2"}

\* what /bin/hostname answers
RealHostnames == {"h1"}

SRV_RUN == "/srv/run"

\* the test of main's loop: "should" in msg or "would" in msg
is_advisory(msg) == Contains(msg, "should") \/ Contains(msg, "would")

\* a loop that gives up at the first problem that is not advisory
logged_until_fatal(problems) ==
  LET stops == {i \in 1..Len(problems) : ~is_advisory(problems[i][2])}
      last == IF stops = {} THEN Len(problems) ELSE CHOOSE i \in stops : \A k \in stops : i <= k
  IN [i \in 1..last |->
        [level |-> IF is_advisory(problems[i][2]) THEN "warning" ELSE "error",
         item |-> problems[i][1], msg |-> problems[i][2]]]

\* main's loop over sanity_check(): a warning or an error for each problem
logged(problems) ==
  [i \in 1..Len(problems) |->
     [level |-> IF is_advisory(problems[i][2]) THEN "warning" ELSE "error",
      item |-> problems[i][1], msg |-> problems[i][2]]]

\* main's counter of the problems that are not advisory
fatal(entries) == Cardinality({i \in 1..Len(entries) : entries[i].level = "error"})

\* main(ctx, debug, simulate): the group callback, run before any subcommand,
\* here one of subs.  A simulation outside dry-run fails main's assertion;
\* runez.abort exits.
main(subs) ==
  /\ pc = "start"
  /\ ret = NoCall
  /\ cp_cache = None
  /\ \E found \in {logged(SrvFolder_sanity_check(site, cfg_yml_exists, cached_conflicting_ports,
                                                  hash_order))} :
     LET stop == fatal(found) > 0
     IN \E sub \in subs, simulate \in Simulations, dry \in BOOLEAN, real \in RealHostnames :
          /\ invoked' = sub
          /\ DRYRUN' = dry
          /\ IF simulate # "" /\ ~dry
               THEN /\ pc' = "crashed"
                    /\ UNCHANGED <<log, is_executor, hostname, cp_cache, abort_msg>>
               ELSE LET simulated == simulate # "" /\ (Contains(simulate, ":") \/ Contains(simulate, "@"))
                        host == IF simulate # "" /\ Contains(simulate, ":")
                                  THEN partition(simulate, ":")[2] ELSE ""
                        checked == sub \notin {"blocklist", "meta"}
                    IN /\ is_executor' = Some(IF simulated THEN TRUE ELSE site.folder = Some(SRV_RUN))
                       /\ hostname' = Some(IF host # "" THEN host ELSE real)
                       /\ log' = IF checked THEN found ELSE <<>>
                       /\ cp_cache' = IF checked /\ site.folder # None /\ cfg_yml_exists
                                        THEN Some(cached_conflicting_ports) ELSE cp_cache
                       /\ pc' = IF checked /\ stop THEN "aborted" ELSE "ready"
                       /\ abort_msg' = IF checked /\ stop
                                         THEN Some("Please fix reported issues first") ELSE None
  /\ UNCHANGED <<disk, site, hash_order, ret, target, ran, world, dirs>>

\* main, invoked for a subcommand of the site's checks
Main == main(Subcommands)

\* main, invoked for a lifecycle subcommand or for ps
MainLifecycle == main(Lifecycle \cup {"ps"})

\* what the target argument is given as: nothing, units, hosts:units
TargetValues ==
  {None, Some("a"), Some("b,a"), Some("h2:a"), Some("h2,h1:b"), Some("h1,h1:a"),
   Some("h1:"), Some("zz"), Some("h9:a"), Some("b,syncthing")}

\* the executor test of CliTarget.__call__ dropped: never a foreign host
\* (mutation of the test below)
foreign_host_never(hosts, self) == FALSE

\* if self.hosts and self.hosts != GSRV.hostname
foreign_host(hosts, self) == hosts # None /\ hosts[1] # "" /\ hosts[1] # self

\* CliTarget.__call__(ctx, _param, value), the callback of the target
\* argument.  hosts is None or <<text>> on an executor, and the list that
\* get_hosts returns on an orchestrator.  When get_dcs aborts, the object
\* has its hosts and given but no dcs (written <<>> here); when
\* click.BadParameter is raised or get_hosts aborts it has all three, hosts
\* still being the text before the last colon.
Target ==
  /\ pc = "ready"
  /\ invoked \in Lifecycle
  /\ \E value \in TargetValues :
       LET hosts == IF value # None /\ value[1] # "" THEN Some(rpartition(value[1], ":")[1]) ELSE None
           given == IF value # None /\ value[1] # "" THEN Some(rpartition(value[1], ":")[2]) ELSE value
           dcs == get_dcs(site, given)
           found == get_hosts(site, IF hosts = Some("") THEN None ELSE hosts)
       IN IF dcs.aborted # None
            THEN /\ pc' = "target_aborted"
                 /\ abort_msg' = dcs.aborted
                 /\ target' = Some([command |-> invoked, given |-> given, hosts |-> hosts, dcs |-> <<>>])
          ELSE IF is_executor[1]
            THEN IF foreign_host(hosts, hostname[1])
                   THEN /\ pc' = "bad_parameter"
                        /\ abort_msg' = Some("Target host on executor must be self")
                        /\ target' = Some([command |-> invoked, given |-> given,
                                           hosts |-> hosts, dcs |-> dcs.returned[1]])
                   ELSE /\ pc' = "targeted"
                        /\ abort_msg' = abort_msg
                        /\ target' = Some([command |-> invoked, given |-> given,
                                           hosts |-> hosts, dcs |-> dcs.returned[1]])
          ELSE IF found.aborted # None
            THEN /\ pc' = "target_aborted"
                 /\ abort_msg' = found.aborted
                 /\ target' = Some([command |-> invoked, given |-> given,
                                    hosts |-> hosts, dcs |-> dcs.returned[1]])
          ELSE /\ pc' = "targeted"
               /\ abort_msg' = abort_msg
               /\ target' = Some([command |-> invoked, given |-> given,
                                  hosts |-> found.returned[1], dcs |-> dcs.returned[1]])
  /\ UNCHANGED <<disk, site, hash_order, cp_cache, ret, invoked, log, is_executor, hostname, DRYRUN, ran,
                 world, dirs>>

\* the body of a lifecycle subcommand: target.run(), target.run(force=force)
\* for upgrade.  The command meets a file system (when it is one that looks
\* at files on this host), an answer of docker pull and possibly a command
\* that fails; outside dry-run only for the last, as a dry run executes
\* nothing.  It ends "done", or "failed" at the command
\* that failed, or "assert_failed" at a failed assertion.
Run ==
  /\ pc = "targeted"
  /\ \E newer \in BOOLEAN, force \in BOOLEAN :
       /\ invoked # "upgrade" => ~force /\ ~newer
       /\ ~is_executor[1] \/ DRYRUN => ~newer
       /\ \E d \in IF is_executor[1] /\ invoked \in {"stop", "upgrade", "backup", "restore"}
                      THEN DirChoices(site, target[1], hostname[1]) ELSE {{}} :
            \E full \in {CliTarget_run(site, [executor |-> is_executor[1], host |-> hostname[1],
                                               dry |-> DRYRUN, dirs |-> d, newer |-> newer],
                                        target[1], force)} :
              \E fail \in IF is_executor[1] /\ ~DRYRUN THEN 0..MaxFail ELSE {0} :
                \E last \in {ends_at(full.out, fail)} :
                  \E out \in {IF last = 0 THEN full.out ELSE SubSeq(full.out, 1, last)} :
                    /\ fail > 0 => last # 0
                    /\ world' = [dirs |-> d, newer |-> newer, force |-> force, fail |-> fail, running |-> {}]
                    /\ ran' = out
                    /\ dirs' = IF DRYRUN THEN d ELSE d \cup ensured(out)
                    /\ pc' = IF last = 0 THEN "done"
                             ELSE IF out[last].kind = "AssertionError" THEN "assert_failed" ELSE "failed"
  /\ UNCHANGED <<disk, site, hash_order, cp_cache, ret, invoked, log, is_executor, hostname, DRYRUN,
                 abort_msg, target>>

----------------------------------------------------------------------------

Next ==
  \/ Return
  \/ SanityCheck
  \/ ConflictingPorts
  \/ UsedHostPorts
  \/ VanillaBackup
  \/ EnvironmentCheck
  \/ VolumesCheck
  \/ GetDcs
  \/ GetHosts
  \/ BackupDestination
  \/ Main
  \/ Target
  \/ Run

Spec == Init /\ [][Next]_vars

\* the body of the subcommand ps.  Outside dry-run docker ps lists the
\* running images and a command can fail.
Ps ==
  /\ pc = "ready"
  /\ invoked = "ps"
  /\ \E running \in IF is_executor[1] /\ ~DRYRUN THEN RunningChoices(site, hostname[1]) ELSE {{}} :
       \E full \in {ps(site, [executor |-> is_executor[1], host |-> hostname[1], dry |-> DRYRUN,
                              dirs |-> {}, newer |-> FALSE], running)} :
         \E fail \in IF is_executor[1] /\ ~DRYRUN THEN 0..MaxFail ELSE {0} :
           \E last \in {ends_at(full, fail)} :
             /\ fail > 0 => last # 0
             /\ world' = [NoWorld EXCEPT !.fail = fail, !.running = running]
             /\ ran' = IF last = 0 THEN full ELSE SubSeq(full, 1, last)
             /\ pc' = IF last = 0 THEN "listed"
                      ELSE IF full[last].kind = "AssertionError" THEN "assert_failed" ELSE "failed_listing"
  /\ UNCHANGED <<disk, site, hash_order, cp_cache, ret, invoked, log, is_executor, hostname, DRYRUN,
                 abort_msg, target, dirs>>

\* dc.restore(auto=True), called for a unit of the site on an executor of
\* the name h, in a dry run or not, with the directories d on its file system
RestoreAuto ==
  /\ pc = "start"
  /\ ret = NoCall
  /\ \E i \in 1..Len(site.dc_files), h \in Range(hostnames(site)), dry \in BOOLEAN :
       LET dc == site.dc_files[i][2]
       IN \E d \in DirChoices(site, [dcs |-> <<dc>>], h) :
            ret' = [op |-> "restore", arg |-> <<i, h, dry, d>>,
                    val |-> SYDC_restore(site, [executor |-> TRUE, host |-> h, dry |-> dry,
                                                dirs |-> d, newer |-> FALSE], dc, TRUE)]
  /\ UNCHANGED <<disk, site, hash_order, cp_cache, cli>>

\* the sites whose constructor returned.  The iteration order of a set of
\* names orders the port conflicts of the check, which stop main before any
\* lifecycle subcommand: one order is kept, that of the units.
InitLifecycle ==
  /\ \E folder \in {None} \cup {Some(f) : f \in Folders} :
       \E d \in Disks :
         /\ folder = None => d = NoDisk
         /\ Len(d.top) + Len(d.sub) <= MaxUnits + (IF d.config = None THEN 0 ELSE 1)
         /\ ~SrvFolder_raises(folder, d)
         /\ disk = d
         /\ site = SrvFolder(folder, d)
  /\ pc = "start"
  /\ hash_order = Keys(site.dc_files)
  /\ cp_cache = None
  /\ ret = NoCall
  /\ invoked = ""
  /\ log = <<>>
  /\ is_executor = None
  /\ hostname = None
  /\ DRYRUN = FALSE
  /\ abort_msg = None
  /\ target = None
  /\ ran = <<>>
  /\ world = NoWorld
  /\ dirs = {}

NextLifecycle ==
  \/ MainLifecycle
  \/ Target
  \/ Run
  \/ Ps
  \/ RestoreAuto

\* the lifecycle subcommands, on the sites that pass main's check
SpecLifecycle == InitLifecycle /\ [][NextLifecycle]_vars

----------------------------------------------------------------------------
(* Properties of the sanity check *)

\* the last call was list(site.sanity_check())
Checked == ret.op = "sanity_check"

\* how many problems of the last sanity_check carry the message msg
CountMsg(msg) == Cardinality({i \in 1..Len(ret.val) : ret.val[i][2] = msg})

\* the message shapes of the unit-level and the port-collision problems
IsEnvMsg(msg) == Contains(msg, " should be ") /\ Contains(msg, " (instead of ")

IsVolumeMsg(msg) == startswith(msg, "Volume '")

IsPortMsg(msg) == startswith(msg, "Port ") /\ Contains(msg, " would conflict ")

\* every occurrence of a unit name in the site document, with its origin tag
References ==
  Flatten([i \in 1..Len(site.run.dcs_by_host) |->
     [k \in 1..Len(site.run.dcs_by_host[i][2]) |->
        <<site.run.dcs_by_host[i][2][k], "run/" \o site.run.dcs_by_host[i][1]>>]])
  \o [k \in 1..Len(site.backup.per_host) |-> <<site.backup.per_host[k], "backup/per_host">>]
  \o [k \in 1..Len(site.backup.restrict) |-> <<site.backup.restrict[k][1], "backup/restrict">>]

DanglingMsg(name, origin) ==
  "DC definition '" \o name \o "' does not exist (referred from " \o CONFIG_YML \o ":" \o origin \o ")"

\* C1: a Site without a root folder: sanity_check() yields exactly one
\* problem, the one that tells the user to configure a folder, and no other.
C1_NoFolderSingleProblem ==
  (Checked /\ site.folder = None) =>
     /\ Len(ret.val) = 1
     /\ startswith(ret.val[1][2], "Run this to configure where your ")
     /\ Contains(ret.val[1][2], "set-folder PATH")

C1_Witness == Checked /\ site.folder = None /\ Len(ret.val) = 1

\* C2: a Site with a root folder whose site document is not on disk:
\* sanity_check() yields exactly one problem, "<document> does not exist", and
\* nothing about units, ports, run or backup, also when units were discovered.
C2_MissingDocumentSingleProblem ==
  (Checked /\ site.folder # None /\ ~cfg_yml_exists) =>
     /\ Len(ret.val) = 1
     /\ ret.val[1][2] = as_posix(site.folder[1]) \o "/" \o CONFIG_YML \o " does not exist"

C2_Witness ==
  /\ Checked /\ site.folder # None /\ ~cfg_yml_exists
  /\ Len(site.dc_files) = 2
  /\ \E i \in 1..Len(site.dc_files) : ~SYDC_vanilla_backup(site.dc_files[i][2])
  /\ Len(ret.val) = 1

\* C3: a Site with a folder, a site document and no unit: sanity_check()
\* reports "no docker-compose files defined", reports nothing at unit level
\* (environment, volume) and no port collision, and still reports the
\* problems of the run assignment and of the backup policy: "no hosts" when
\* there is no host, and one problem for each reference to a unit.
C3_NoUnitsStillChecksRunAndBackup ==
  (Checked /\ site.folder # None /\ cfg_yml_exists /\ Len(site.dc_files) = 0) =>
     /\ CountMsg(as_posix(site.folder[1]) \o " has no docker-compose files defined") = 1
     /\ \A i \in 1..Len(ret.val) :
          ~IsEnvMsg(ret.val[i][2]) /\ ~IsVolumeMsg(ret.val[i][2]) /\ ~IsPortMsg(ret.val[i][2])
     /\ (Len(site.run.dcs_by_host) = 0) <=>
          (CountMsg("no hosts are defined in " \o CONFIG_YML \o " run: section") = 1)
     /\ \A r \in 1..Len(References) :
          CountMsg(DanglingMsg(References[r][1], References[r][2]))
            = Cardinality({q \in 1..Len(References) : References[q] = References[r]})
     /\ Len(ret.val) = 1 + (IF Len(site.run.dcs_by_host) = 0 THEN 1 ELSE 0) + Len(References)

C3_Witness ==
  /\ Checked /\ site.folder # None /\ cfg_yml_exists /\ Len(site.dc_files) = 0
  /\ Len(site.run.dcs_by_host) = 2
  /\ Len(site.backup.per_host) > 0
  /\ Len(ret.val) > 3

\* C4: dangling references.  For every reference to a unit name from the run
\* assignment of a host, from backup per_host or from the keys of backup
\* restrict, sanity_check() yields "DC definition '<name>' does not exist
\* (referred from <origin>)" once per occurrence when the name is not a key of
\* the unit mapping, and never when it is; it yields no other such problem.
C4_DanglingReferences ==
  Checked =>
     /\ \A r \in 1..Len(References) :
          CountMsg(DanglingMsg(References[r][1], References[r][2]))
            = IF References[r][1] \in KeySet(site.dc_files) THEN 0
              ELSE Cardinality({q \in 1..Len(References) : References[q] = References[r]})
     /\ Cardinality({i \in 1..Len(ret.val) : startswith(ret.val[i][2], "DC definition '")})
          = Cardinality({r \in 1..Len(References) : References[r][1] \notin KeySet(site.dc_files)})

C4_Witness ==
  /\ Checked
  /\ CountMsg(DanglingMsg("zz", "run/h2")) = 2
  /\ CountMsg(DanglingMsg("zz", "backup/per_host")) = 2
  /\ CountMsg(DanglingMsg("would", "backup/restrict")) = 1
  /\ "a" \in KeySet(site.dc_files) /\ CountMsg(DanglingMsg("a", "run/h1")) = 0
  /\ "b" \notin KeySet(site.dc_files) /\ CountMsg(DanglingMsg("b", "backup/per_host")) = 1

\* the host port of a ports entry "host:container" (or "port"), as a number
HostPort(entry) == int(partition(entry, ":")[1])

\* the names of the units with a service that declares host port p
Declarers(p) ==
  {site.dc_files[i][2].dc_name : i \in
     {u \in 1..Len(site.dc_files) :
        \E j \in 1..Len(site.dc_files[u][2].services) :
          \E k \in 1..Len(site.dc_files[u][2].services[j].ports) :
            HostPort(site.dc_files[u][2].services[j].ports[k]) = p}}

\* how many services of the site declare host port p
DeclaringServices(p) ==
  Cardinality(UNION {{<<u, j>> : j \in
     {x \in 1..Len(site.dc_files[u][2].services) :
        \E k \in 1..Len(site.dc_files[u][2].services[x].ports) :
          HostPort(site.dc_files[u][2].services[x].ports[k]) = p}} :
     u \in 1..Len(site.dc_files)})

DeclaredPorts ==
  UNION {UNION {{HostPort(site.dc_files[u][2].services[j].ports[k]) :
                   k \in 1..Len(site.dc_files[u][2].services[j].ports)} :
                j \in 1..Len(site.dc_files[u][2].services)} :
         u \in 1..Len(site.dc_files)}

\* C5: a host port is a key of conflicting_ports iff services of at least two
\* units declare it, and it maps to the names of all units that declare it; a
\* port that only one unit declares, even in several services, is no key.
C5_ConflictsAreUnitScoped ==
  cp_cache # None =>
     /\ KeySet(cp_cache[1]) = {p \in DeclaredPorts : Cardinality(Declarers(p)) >= 2}
     /\ \A i \in 1..Len(cp_cache[1]) : cp_cache[1][i][2] = Declarers(cp_cache[1][i][1])
     /\ (ret.op = "conflicting_ports" => ret.val = cp_cache[1])

C5_Witness ==
  /\ ret.op = "conflicting_ports"
  /\ KeySet(ret.val) = {80}
  /\ DictGet(ret.val, 80) = Some({"a", "b"})
  /\ DeclaringServices(9000) = 2 /\ Declarers(9000) = {"a"}
  /\ 443 \in DeclaredPorts

\* sorted(names) of a set of names
Sorted(S) == CHOOSE f \in Perms(S) : \A i, j \in 1..Cardinality(S) : i < j => StrLess(f[i], f[j])

PortMsg(port, names) ==
  "Port " \o str(port) \o " would conflict on same host for dcs: " \o join(" ", names)

\* C6: for every conflicting port sanity_check() yields exactly one problem,
\* which names the port and then the colliding unit names in sorted order,
\* joined by single spaces.
C6_PortProblemNamesSorted ==
  (Checked /\ site.folder # None /\ cfg_yml_exists) =>
     /\ \A i \in 1..Len(conflicting_ports(site)) :
          CountMsg(PortMsg(conflicting_ports(site)[i][1], Sorted(conflicting_ports(site)[i][2]))) = 1
     /\ Cardinality({i \in 1..Len(ret.val) : IsPortMsg(ret.val[i][2])}) = Len(conflicting_ports(site))

\* the host path of a volumes entry "host:container"
HostPath(entry) == partition(entry, ":")[1]

\* path begins with the segments of persist_root/dc_name: /, srv, persist, dc_name
UnderUnitRoot(dc_name, path) ==
  /\ Len(PathParts(path)) >= 4
  /\ PathParts(path)[1] = "/"
  /\ PathParts(path)[2] = "srv"
  /\ PathParts(path)[3] = "persist"
  /\ PathParts(path)[4] = dc_name

\* the unit, and the service, that the last call was made on
CalledUnit == site.dc_files[ret.arg[1]][2]

CalledService == CalledUnit.services[ret.arg[2]]

\* C7: a unit's vanilla_backup is true iff the unit has at least one service
\* and every host path of every volume of every service begins with the path
\* segments of persist_root/<unit name>.  Segments are compared, not text: a
\* path under persist_root/<name followed by more characters> does not count.
\* A service without volumes counts as vanilla, a unit without services not.
C7_VanillaIffAllVolumesUnderUnitRoot ==
  ret.op = "vanilla_backup" =>
     (ret.val <=>
        /\ Len(CalledUnit.services) >= 1
        /\ \A j \in 1..Len(CalledUnit.services) :
             \A k \in 1..Len(CalledUnit.services[j].volumes) :
               UnderUnitRoot(CalledUnit.dc_name, HostPath(CalledUnit.services[j].volumes[k])))

C7_Witness ==
  /\ ret.op = "vanilla_backup"
  /\ ret.val = FALSE
  /\ CalledUnit.dc_name = "a"
  /\ Len(CalledUnit.services) = 2
  /\ Len(CalledUnit.services[2].volumes) = 0
  /\ \A k \in 1..Len(CalledUnit.services[1].volumes) :
       startswith(HostPath(CalledUnit.services[1].volumes[k]), "/srv/persist/a")

\* C8: the volume-layout check of a service yields nothing when the unit is
\* special or the service declares no volume; otherwise it yields "Volume
\* '<path>' should be '<persist_root>/<unit>'" exactly once for each declared
\* host path that does not begin with the segments of persist_root/<unit>, and
\* nothing for a host path that does.
C8_VolumeLayoutProblems ==
  ret.op = "volumes.sanity_check" =>
     LET paths == {HostPath(CalledService.volumes[k]) : k \in 1..Len(CalledService.volumes)}
     IN IF CalledUnit.dc_name = "syncthing" \/ Len(CalledService.volumes) = 0
          THEN ret.val = <<>>
          ELSE /\ \A h \in paths :
                    CountMsg("Volume '" \o h \o "' should be '/srv/persist/" \o CalledUnit.dc_name \o "'")
                      = IF UnderUnitRoot(CalledUnit.dc_name, h) THEN 0 ELSE 1
               /\ Len(ret.val) = Cardinality({h \in paths : ~UnderUnitRoot(CalledUnit.dc_name, h)})

C8_Witness ==
  /\ ret.op = "volumes.sanity_check"
  /\ CalledUnit.dc_name = "b"
  /\ Len(CalledService.volumes) = 3
  /\ Len(ret.val) = 2
  /\ CountMsg("Volume 'srv/persist/b' should be '/srv/persist/b'") = 1

\* what a service declares for the variable k: the stripped value of its
\* last "k=value" assignment, None without one
Declared(cfg, k) ==
  LET at == {n \in 1..Len(cfg) : partition(cfg[n], "=")[1] = k}
  IN IF at = {} THEN None
     ELSE Some(strip(partition(cfg[CHOOSE n \in at : \A m \in at : m <= n], "=")[2]))

Expectations == IF site.env = None THEN <<>> ELSE site.env[1]

\* C9: environment conformance.  For every key K of the site's expectations the
\* check of a service yields "K should be <expected> (instead of <actual>)"
\* exactly when the service declares K with another value, and nothing for K
\* otherwise; the problems come in the order of the expectations, and the
\* site, with what the service declares, is as it was built.
C9_EnvironmentConformance ==
  ret.op = "environment.sanity_check" =>
     LET cfg == CalledService.environment
         off == SelectSeq(Expectations,
                          LAMBDA kv : Declared(cfg, kv[1]) # None /\ Declared(cfg, kv[1]) # Some(kv[2]))
     IN /\ Len(ret.val) = Len(off)
        /\ \A n \in 1..Len(off) :
             ret.val[n][2] = off[n][1] \o " should be " \o off[n][2]
                               \o " (instead of " \o Declared(cfg, off[n][1])[1] \o ")"
        /\ site = SrvFolder(site.folder, disk)

C9_Witness ==
  /\ ret.op = "environment.sanity_check"
  /\ CalledService.environment = <<"TZ=PST", "PUID=1002">>
  /\ Len(ret.val) = 2
  /\ ret.val[1][2] = "PUID should be 1001 (instead of 1002)"
  /\ ret.val[2][2] = "TZ should be UTC (instead of PST)"

\* main has gone through the problems of the site
Reported == pc \in {"aborted", "ready"} /\ invoked \notin {"blocklist", "meta"}

\* the log entry stems from the environment or the volume check of a service
IsStyleDrift(e) ==
  \E i \in 1..Len(site.dc_files) :
    \E j \in 1..Len(site.dc_files[i][2].services) :
      LET found == DCService_sanity_check(site.env, site.dc_files[i][2],
                                          site.dc_files[i][2].services[j])
      IN \E k \in 1..Len(found) : found[k] = <<e.item, e.msg>>

\* the log entry is the site's report of a host port that several units claim
IsPortConflict(e) ==
  /\ e.item = SrvFolder_repr(site)
  /\ cp_cache # None
  /\ \E c \in 1..Len(cp_cache[1]) :
       startswith(e.msg, "Port " \o str(cp_cache[1][c][1]) \o " would conflict on same host for dcs: ")

\* C10: a problem is logged as a warning exactly when it is style drift (an
\* environment mismatch or a volume-layout problem) or a port conflict; every
\* other problem is logged as an error and makes main abort, whatever unit
\* names, host names or folder path its message carries.
C10_SeverityByKind ==
  Reported =>
     /\ \A n \in 1..Len(log) :
          (log[n].level = "warning") <=> (IsStyleDrift(log[n]) \/ IsPortConflict(log[n]))
     /\ (\E n \in 1..Len(log) : ~IsStyleDrift(log[n]) /\ ~IsPortConflict(log[n])) => pc = "aborted"

\* what sanity_check() yields for the site main works on
Yielded == SrvFolder_sanity_check(site, cfg_yml_exists, cached_conflicting_ports, hash_order)

\* C11: for a lifecycle subcommand main reports every problem that
\* sanity_check() yields, in the order yielded, as a warning when its message
\* says "should" or "would" and as an error otherwise, and only then decides:
\* it aborts with "Please fix reported issues first" iff a problem was
\* reported as an error; with warnings only (a port conflict, say) the
\* subcommand runs.
C11_ReportAllThenAbortIffFatal ==
  Reported =>
     LET yielded == Yielded
     IN /\ Len(log) = Len(yielded)
        /\ \A n \in 1..Len(log) :
             /\ log[n].item = yielded[n][1]
             /\ log[n].msg = yielded[n][2]
             /\ log[n].level = IF Contains(yielded[n][2], "should") \/ Contains(yielded[n][2], "would")
                                 THEN "warning" ELSE "error"
        /\ (pc = "aborted") <=> (\E n \in 1..Len(log) : log[n].level = "error")
        /\ (pc = "aborted") <=> (abort_msg = Some("Please fix reported issues first"))
        /\ (pc = "ready") <=> (\A n \in 1..Len(log) : log[n].level = "warning")

C11_Witness ==
  /\ Reported
  /\ invoked = "stop"
  /\ pc = "ready"
  /\ abort_msg = None
  /\ Len(log) >= 2
  /\ \E n \in 1..Len(log) : IsPortConflict(log[n])

\* the disk with every document that does not parse replaced by an empty one
AsAbsent(d) ==
  [d EXCEPT !.config = IF d.config # None /\ CONFIG_YML \in d.bad THEN Some(EmptyCfg) ELSE d.config,
            !.top = [i \in 1..Len(d.top) |->
                       IF DocPath(d.top[i]) \in d.bad THEN [d.top[i] EXCEPT !.services = <<>>]
                       ELSE d.top[i]],
            !.sub = [i \in 1..Len(d.sub) |->
                       IF DocPath(d.sub[i]) \in d.bad THEN [d.sub[i] EXCEPT !.services = <<>>]
                       ELSE d.sub[i]],
            !.bad = {}]

\* C12: when the site document or a unit document exists but does not parse,
\* the failure is not propagated: the Site is built with that document taken
\* as an empty mapping, and sanity_check() can be called on it afterwards.
C12_MalformedDocumentTreatedAsAbsent ==
  disk.bad # {} =>
     /\ pc # "raised"
     /\ site = SrvFolder(site.folder, AsAbsent(disk))
     /\ (pc = "start" => ENABLED SanityCheck)

\* the unit names of the site; the special ones; the ones with a vanilla layout
AllUnits == KeySet(site.dc_files)

SpecialUnits == AllUnits \cap {"syncthing"}

VanillaUnits ==
  {site.dc_files[i][1] : i \in
     {u \in 1..Len(site.dc_files) :
        /\ Len(site.dc_files[u][2].services) >= 1
        /\ \A j \in 1..Len(site.dc_files[u][2].services) :
             \A k \in 1..Len(site.dc_files[u][2].services[j].volumes) :
               UnderUnitRoot(site.dc_files[u][1], HostPath(site.dc_files[u][2].services[j].volumes[k]))}}

\* the names of the units a get_dcs call returned
NamesOf(result) == {result.returned[1][i].dc_name : i \in 1..Len(result.returned[1])}

\* the call returned the units named in S: those, each once, as the site holds them
ReturnsExactly(result, S) ==
  /\ result.aborted = None
  /\ result.returned # None
  /\ NamesOf(result) = S
  /\ Len(result.returned[1]) = Cardinality(S)
  /\ \A i \in 1..Len(result.returned[1]) : result.returned[1][i] \in Range(dcs_of(site))

\* C13: get_dcs without a selector returns exactly the units that are not
\* special, with "all" or "*" exactly all units, with "special" exactly the
\* special ones, with "vanilla" exactly those whose vanilla_backup is true.
\* So get_dcs() and get_dcs("special") are disjoint and together make
\* get_dcs("all"), get_dcs("vanilla") is within get_dcs("all"), and
\* get_dcs("all") is strictly larger than get_dcs() when a special unit exists.
C13_GetDcsSelectors ==
  ret.op = "get_dcs" =>
     /\ ret.arg[1] \in {None, Some("")} => ReturnsExactly(ret.val, AllUnits \ SpecialUnits)
     /\ ret.arg[1] \in {Some("all"), Some("*")} => ReturnsExactly(ret.val, AllUnits)
     /\ ret.arg[1] = Some("special") => ReturnsExactly(ret.val, SpecialUnits)
     /\ ret.arg[1] = Some("vanilla") => ReturnsExactly(ret.val, VanillaUnits)
     /\ NamesOf(get_dcs(site, None)) \cap NamesOf(get_dcs(site, Some("special"))) = {}
     /\ NamesOf(get_dcs(site, None)) \cup NamesOf(get_dcs(site, Some("special")))
          = NamesOf(get_dcs(site, Some("all")))
     /\ NamesOf(get_dcs(site, Some("vanilla"))) \subseteq NamesOf(get_dcs(site, Some("all")))
     /\ SpecialUnits # {} =>
          Len(get_dcs(site, Some("all")).returned[1]) > Len(get_dcs(site, None).returned[1])

C13_Witness ==
  /\ ret.op = "get_dcs"
  /\ ret.arg[1] = None
  /\ SpecialUnits # {}
  /\ NamesOf(ret.val) = {"a"}
  /\ VanillaUnits = {}

\* the selector words of get_dcs and get_hosts
Keywords == {"all", "*", "special", "vanilla"}

\* the names of a comma-separated list, empty items dropped
Listed(text) == {x \in Range(split(text, ",")) : x # ""}

\* the last call was get_dcs with a list of names
ByName == ret.op = "get_dcs" /\ ret.arg[1] # None /\ ret.arg[1][1] \notin Keywords \cup {""}

\* C14: get_dcs with a comma-separated list of names returns exactly the
\* named units, special ones included, each once, when every name is a key of
\* the unit mapping; when a name is unknown it aborts and returns no unit,
\* and the abort message lists every unknown name of the list.
C14_GetDcsByName ==
  ByName =>
     LET unknown == Listed(ret.arg[1][1]) \ AllUnits
     IN IF unknown = {}
          THEN ReturnsExactly(ret.val, Listed(ret.arg[1][1]))
          ELSE /\ ret.val.returned = None
               /\ ret.val.aborted # None
               /\ startswith(ret.val.aborted[1], "Unknown docker-compose refs: ")
               /\ \A u \in unknown : Contains(ret.val.aborted[1], u)
               /\ \A u \in AllUnits :
                    ~Contains(SubSeq(ret.val.aborted[1], 29, Len(ret.val.aborted[1])), u)

C14_Witness ==
  /\ ByName
  /\ ret.arg[1] = Some("zz,a,b,yy")
  /\ AllUnits = {"a", "b"}
  /\ ret.val.aborted = Some("Unknown docker-compose refs: zz, yy")

\* a named special unit is returned like any other
C14_SpecialByName ==
  /\ ByName
  /\ ret.arg[1] = Some("syncthing,,a,a")
  /\ ret.val.aborted = None
  /\ NamesOf(ret.val) = {"syncthing", "a"}
  /\ Len(ret.val.returned[1]) = 2

\* the hosts of the run assignment, in the order the site document declares them
DeclaredHosts == [i \in 1..Len(site.cfg.run) |-> site.cfg.run[i][1]]

\* the items of a comma-separated list in the order given, empty ones dropped
ListedInOrder(text) == SelectSeq(split(text, ","), LAMBDA x : x # "")

\* C15: get_hosts without a selector, with "all" or with "*" returns the
\* hostnames of the run assignment in their declared order; with a
\* comma-separated list it returns the listed hosts when each of them is
\* declared, and otherwise aborts without returning, the message listing
\* every host that is not declared.
C15_GetHosts ==
  ret.op = "get_hosts" =>
     IF ret.arg[1] \in {None, Some("all"), Some("*")}
       THEN ret.val.aborted = None /\ ret.val.returned = Some(DeclaredHosts)
       ELSE LET undeclared == Listed(ret.arg[1][1]) \ Range(DeclaredHosts)
            IN IF undeclared = {}
                 THEN ret.val.aborted = None /\ ret.val.returned = Some(ListedInOrder(ret.arg[1][1]))
                 ELSE /\ ret.val.returned = None
                      /\ ret.val.aborted # None
                      /\ startswith(ret.val.aborted[1], "Host(s) not configured: ")
                      /\ \A h \in undeclared : Contains(ret.val.aborted[1], h)
                      /\ \A h \in Range(DeclaredHosts) : ~Contains(ret.val.aborted[1], h)

C15_Witness ==
  /\ ret.op = "get_hosts"
  /\ ret.arg[1] = Some("h9,h1,h8")
  /\ DeclaredHosts = <<"h2", "h1">>
  /\ ret.val.aborted = Some("Host(s) not configured: h9, h8")

\* the declared order is kept, also when it is not the sorted one
C15_DeclaredOrder ==
  /\ ret.op = "get_hosts"
  /\ ret.arg[1] = Some("*")
  /\ ret.val.returned = Some(<<"h2", "h1">>)

\* the words of a text that spaces separate
Listed_by_space(text) == {x \in Range(split(text, " ")) : x # ""}

\* the backup root of the site document, the default one when it names none
BackupRoot == IF site.cfg.backup.folder = None THEN "/srv/data/server-backup" ELSE site.cfg.backup.folder[1]

\* the unit names of the site document's backup per_host entry
PerHostUnits == UNION {Listed_by_space(site.cfg.backup.per_host[i]) : i \in 1..Len(site.cfg.backup.per_host)}

\* C16: the backup destination of a unit is <root>/<hostname>/<unit> when the
\* unit is in the per_host list and <root>/<unit> otherwise, the hostname being
\* the identity of the host that runs the backup.  So another host gets
\* another destination for a per_host unit, and another unit gets another
\* destination on the same host.
C16_BackupDestination ==
  ret.op = "backup_destination" =>
     LET u == CalledUnit.dc_name
         h == ret.arg[2]
     IN /\ ret.val = IF u \in PerHostUnits THEN BackupRoot \o "/" \o h \o "/" \o u
                                            ELSE BackupRoot \o "/" \o u
        /\ u \in PerHostUnits =>
             \A h2 \in BackupHosts \ {h} : backup_destination(site, h2, CalledUnit) # ret.val
        /\ \A i \in 1..Len(site.dc_files) :
             i # ret.arg[1] => backup_destination(site, h, site.dc_files[i][2]) # ret.val

C16_Witness ==
  /\ ret.op = "backup_destination"
  /\ ret.arg[2] = "h1"
  /\ CalledUnit.dc_name = "b"
  /\ ret.val = "/bk/h1/b"
  /\ \E i \in 1..Len(site.dc_files) :
       site.dc_files[i][1] = "a" /\ backup_destination(site, "h1", site.dc_files[i][2]) = "/bk/a"

\* sanity_check() went past its early returns
CheckedSite == Checked /\ site.folder # None /\ cfg_yml_exists

NoHostsMsg == "no hosts are defined in _config.yml run: section"

\* C17: the check of the run assignment yields the "no hosts are defined"
\* problem iff the run assignment declares no host at all (a host without
\* units is a host), and yields it on top of what the other checks find: with
\* no host declared the missing units and the dangling references of the
\* backup policy are reported all the same.
C17_NoHostsProblem ==
  CheckedSite =>
     /\ CountMsg(NoHostsMsg) = IF Len(site.cfg.run) = 0 THEN 1 ELSE 0
     /\ Len(site.cfg.run) = 0 =>
          /\ AllUnits = {} => \E n \in 1..Len(ret.val) :
                                 Contains(ret.val[n][2], " has no docker-compose files defined")
          /\ \A u \in PerHostUnits \ AllUnits : CountMsg(DanglingMsg(u, "backup/per_host")) >= 1
          /\ Len(ret.val) >= 1 + Cardinality(PerHostUnits \ AllUnits) + (IF AllUnits = {} THEN 1 ELSE 0)

C17_Witness ==
  /\ CheckedSite
  /\ Len(site.cfg.run) = 0
  /\ CountMsg(NoHostsMsg) = 1
  /\ AllUnits = {"a"}
  /\ CountMsg(DanglingMsg("zz", "backup/per_host")) = 1
  /\ Len(ret.val) > 2

\* a host that runs no unit is a host: no problem for it
C17_HostWithoutUnits ==
  /\ CheckedSite
  /\ Len(site.cfg.run) = 1
  /\ site.run.dcs_by_host[1][2] = <<>>
  /\ CountMsg(NoHostsMsg) = 0

\* the constructor returned a Site for a folder that exists
Constructed == pc # "raised" /\ site.folder # None /\ disk.is_dir

\* the name a document gives its unit: the folder it is in for a
\* docker-compose.yml, else its own name without the extension
DerivedName(f) ==
  IF f.name = "docker-compose.yml" THEN f.parent ELSE SubSeq(f.name, 1, Len(f.name) - 4)

\* the unit documents of the folder: not those whose name starts with "_"
UnitDocs(d) == {f \in Range(d.top) : SubSeq(f.name, 1, 1) # "_"} \cup Range(d.sub)

\* the folder without the standalone documents that a subfolder document shadows
Unshadowed(d) ==
  [d EXCEPT !.top = SelectSeq(d.top, LAMBDA f : \A g \in Range(d.sub) : DerivedName(g) # DerivedName(f))]

\* C18: after construction every key of the unit mapping is the derived name
\* of the unit it maps to: the containing folder's name for a
\* docker-compose.yml, the base name without extension otherwise; a document
\* whose name starts with "_" is no unit.  Names are unique.  When <name>.yml
\* and <name>/docker-compose.yml both exist the mapping holds the subfolder
\* document, found later, and sanity_check() reports nothing for it: it
\* yields what it yields without the standalone document.
C18_UnitNaming ==
  Constructed =>
     /\ \A i \in 1..Len(site.dc_files) : site.dc_files[i][1] = site.dc_files[i][2].dc_name
     /\ \A i, j \in 1..Len(site.dc_files) : i # j => site.dc_files[i][1] # site.dc_files[j][1]
     /\ AllUnits = {DerivedName(f) : f \in UnitDocs(disk)}
     /\ \A f \in UnitDocs(disk) : SubSeq(DerivedName(f), 1, 1) # "_"
     /\ \A i \in 1..Len(site.dc_files) :
          \A g \in Range(disk.sub) :
            DerivedName(g) = site.dc_files[i][1] => site.dc_files[i][2].services = g.services
     /\ Checked =>
          Range(ret.val) =
            Range(SrvFolder_sanity_check(SrvFolder(site.folder, Unshadowed(disk)), cfg_yml_exists,
                                         conflicting_ports(SrvFolder(site.folder, Unshadowed(disk))),
                                         hash_order))

C18_Witness ==
  /\ Constructed
  /\ Checked
  /\ cfg_yml_exists
  /\ \E f \in Range(disk.top) : f.name = "a.yml" /\ Len(f.services) = 2
  /\ \E g \in Range(disk.sub) : g.parent = "a" /\ Len(g.services) = 0
  /\ Len(site.dc_files) = 1
  /\ site.dc_files[1][1] = "a"
  /\ site.dc_files[1][2].services = <<>>

\* the ports of a fresh used_host_ports() that more than one unit claims
FreshConflicts(s) == SelectSeq(used_host_ports(s, TRUE), LAMBDA kv : Cardinality(kv[2]) >= 2)

\* what a call gives on a site s whose sets iterate in the order h, nothing
\* being memoized yet: the result of the first call with that argument
FirstResult(s, d, h, call) ==
  CASE call.op = "sanity_check" ->
         SrvFolder_sanity_check(s, s.folder # None /\ d.is_dir /\ d.config # None, FreshConflicts(s), h)
    [] call.op = "conflicting_ports" -> FreshConflicts(s)
    [] call.op = "used_host_ports" -> used_host_ports(s, call.arg[1])
    [] call.op = "get_dcs" -> get_dcs(s, call.arg[1])
    [] call.op = "get_hosts" -> get_hosts(s, call.arg[1])
    [] OTHER -> call.val

\* C19: the Site is read-only after construction.  No call of sanity_check,
\* get_dcs, get_hosts, used_host_ports or conflicting_ports, in any sequence,
\* changes the unit mapping, a service's environment, ports or volumes, the
\* run assignment or the backup policy; every call returns what the first
\* call with its argument returns; and the memoized conflicting_ports equals
\* the ports of a fresh used_host_ports() that have more than one unit.
C19_SiteIsReadOnly ==
  [][/\ site' = site
     /\ disk' = disk
     /\ hash_order' = hash_order
     /\ ret' # NoCall => ret'.val = FirstResult(site, disk, hash_order, ret')
     /\ cp_cache' # None => cp_cache'[1] = FreshConflicts(site)
     /\ cp_cache # None => cp_cache' = cp_cache]_vars

\* a call made after the memo was filled by an earlier one
C19_Witness ==
  /\ ret.op = "get_dcs"
  /\ ret.arg[1] = Some("vanilla")
  /\ cp_cache # None
  /\ Len(cp_cache[1]) >= 1
  /\ Len(site.dc_files) = 2

\* target.run() has returned on an orchestrator
Orchestrated == pc = "done" /\ is_executor = Some(FALSE)

\* the units the site document's run assignment gives a host
AssignedTo(h) ==
  UNION {UNION {Listed_by_space(site.cfg.run[i][2][k]) : k \in 1..Len(site.cfg.run[i][2])} :
           i \in {x \in 1..Len(site.cfg.run) : site.cfg.run[x][1] = h}}

\* the hosts that were sent a command over ssh, in the order of sending
SshHosts == [i \in 1..Len(ran) |-> ran[i].host]

\* where h comes first in the list of selected hosts
FirstAt(h) == CHOOSE i \in 1..Len(target[1].hosts) :
                 target[1].hosts[i] = h /\ \A k \in 1..(i - 1) : target[1].hosts[k] # h

\* C20: on an orchestrator target.run() sends the lifecycle command over ssh
\* to a host iff the host is among the selected hosts and the run assignment
\* gives it at least one of the selected units.  Each such host is sent
\* exactly one command, in the order of the selected hosts; a host that runs
\* none of the selected units is sent none; and no unit method runs locally.
C20_OrchestratorSendsOncePerHost ==
  Orchestrated =>
     /\ \A n \in 1..Len(ran) : ran[n].kind = "ssh"
     /\ \A h \in Range(hostnames(site)) \cup Range(target[1].hosts) :
          Cardinality({n \in 1..Len(ran) : ran[n].host = h})
            = IF /\ h \in Range(target[1].hosts)
                 /\ \E k \in 1..Len(target[1].dcs) : target[1].dcs[k].dc_name \in AssignedTo(h)
                THEN 1 ELSE 0
     /\ \A m, n \in 1..Len(ran) : m < n => FirstAt(ran[m].host) <= FirstAt(ran[n].host)

(***************************************************************************)
(* The lifecycle commands on an executor                                   *)
(***************************************************************************)

\* target.run() has ended on an executor, by itself or at a failed command
RanOnExecutor == pc \in {"done", "failed"} /\ is_executor = Some(TRUE)

\* the names of the selected units, in selection order
Selected == [i \in 1..Len(target[1].dcs) |-> target[1].dcs[i].dc_name]

\* where a unit stands in the selection
SelectedAt(u) == CHOOSE i \in 1..Len(Selected) : Selected[i] = u

\* the units whose method was called, in the order of the calls
Called == LET calls == SelectSeq(ran, LAMBDA e : e.kind = "local")
          IN [n \in 1..Len(calls) |-> calls[n].unit]

\* the line logged for a selected unit that this host does not run
NotConfigured(u) == "'" \o u \o "' is not configured to run on host '" \o hostname[1] \o "'"

\* C21: on an executor target.run() calls the method of the command's name
\* for the selected units that the run assignment gives this host and for no
\* other, in selection order; a selected unit that is not assigned to this
\* host gets one line "'<unit>' is not configured to run on host '<host>'"
\* and nothing else: no method of it is called and no command is run for it.
C21_ExecutorRunsOnlyItsUnits ==
  RanOnExecutor =>
     LET mine == AssignedTo(hostname[1])
     IN /\ \A n \in 1..Len(ran) :
             /\ ran[n].unit \in Range(Selected)
             /\ ran[n].host = hostname[1]
             /\ ran[n].kind = "local" => ran[n].unit \in mine /\ ran[n].argv = <<invoked>>
             /\ ran[n].unit \notin mine => ran[n].kind = "info" /\ ran[n].argv = <<NotConfigured(ran[n].unit)>>
             /\ ran[n].unit \in mine /\ ran[n].kind # "local" =>
                  \E k \in 1..(n - 1) : ran[k].kind = "local" /\ ran[k].unit = ran[n].unit
        /\ \A m, n \in 1..Len(ran) : m < n => SelectedAt(ran[m].unit) <= SelectedAt(ran[n].unit)
        /\ \A m, n \in 1..Len(ran) : m < n /\ ran[m].kind = "local" /\ ran[n].kind = "local"
                                        => ran[m].unit # ran[n].unit
        /\ pc = "done" =>
             /\ Called = SelectSeq(Selected, LAMBDA u : u \in mine)
             /\ \A u \in Range(Selected) \ mine :
                  Cardinality({n \in 1..Len(ran) : ran[n].unit = u}) = 1

\* a run on an executor that called the method of one selected unit and
\* skipped another that came before it in the selection
C21_Witness ==
  /\ RanOnExecutor
  /\ pc = "done"
  /\ Len(Selected) = 2
  /\ Selected[1] \notin AssignedTo(hostname[1])
  /\ Selected[2] \in AssignedTo(hostname[1])
  /\ Called = <<Selected[2]>>
  /\ ran[1].kind = "info"

\* the host part of the target argument as it was given: the text before the
\* last colon, "" when there is none
HostPart == IF target[1].hosts = None THEN "" ELSE target[1].hosts[1]

\* the target argument named a host that is not this executor
ForeignHost == /\ is_executor = Some(TRUE)
               /\ target # None
               /\ HostPart # ""
               /\ HostPart # hostname[1]

UnitNamed(u) == target[1].dcs[SelectedAt(u)]

\* a unit that backup and restore leave alone
NotBackedUp(dc) == dc.is_special \/ ~SYDC_vanilla_backup(dc)

\* the entries of the run that stand for files being synchronized
Synced == {n \in 1..Len(ran) : ran[n].kind \in {"rsync", "ensure_folder"}}

\* the entries of the run that belong to a unit
EntriesOf(u) == SelectSeq(ran, LAMBDA e : e.unit = u)

\* the line backup logs for a unit it leaves alone
NotBackingUp(dc, action) ==
  "Not " \o action \o " '" \o dc.dc_name \o "': "
     \o (IF dc.is_special THEN "special container"
         ELSE "it does NOT use volume /srv/persist/" \o dc.dc_name)

\* C23: no rsync (and no folder creation) is ever issued for a special unit
\* or for a unit whose vanilla_backup is false, whatever the command: backup
\* or restore with the unit named or selected by default, or the backup that
\* stop and upgrade trigger.  backup and restore of such a unit log one line
\* saying why and return.
C23_NoSyncOfSpecialOrNonVanilla ==
  RanOnExecutor =>
     /\ \A n \in Synced : ~NotBackedUp(UnitNamed(ran[n].unit))
     /\ \A n \in 1..Len(ran) :
          ran[n].kind = "local" /\ NotBackedUp(UnitNamed(ran[n].unit)) /\ pc = "done" =>
             LET dc == UnitNamed(ran[n].unit)
                 did == EntriesOf(dc.dc_name)
             IN /\ invoked = "backup" =>
                     did = <<ran[n], Cmd("info", hostname[1], dc.dc_name, <<NotBackingUp(dc, "backing up")>>)>>
                /\ invoked = "restore" =>
                     did = <<ran[n], Cmd("info", hostname[1], dc.dc_name, <<NotBackingUp(dc, "restoring")>>)>>
                /\ invoked = "stop" =>
                     /\ Len(did) = 3
                     /\ did[2].kind = "docker-compose"
                     /\ did[3] = Cmd("info", hostname[1], dc.dc_name, <<NotBackingUp(dc, "backing up")>>)
                /\ invoked = "upgrade" =>
                     \A k \in 1..Len(did) :
                        did[k].kind = "info" => did[k].argv = <<NotBackingUp(dc, "backing up")>>

\* a backup that named a non-vanilla unit and a vanilla one on a host with
\* their persisted directories: the first was left alone, the second synchronized
C23_Witness ==
  /\ RanOnExecutor
  /\ pc = "done"
  /\ invoked = "backup"
  /\ target[1].given # None
  /\ \E n \in 1..Len(ran) : /\ ran[n].kind = "local"
                            /\ ~UnitNamed(ran[n].unit).is_special
                            /\ ~SYDC_vanilla_backup(UnitNamed(ran[n].unit))
  /\ Synced # {}

\* the sub-paths the site document's backup restrict entry gives a unit:
\* the whole directory ("") when it gives none
RestrictedTo(u) ==
  LET listed == UNION {UNION {Listed_by_space(site.cfg.backup.restrict[i][2][k]) :
                                k \in 1..Len(site.cfg.backup.restrict[i][2])} :
                         i \in {x \in 1..Len(site.cfg.backup.restrict) : site.cfg.backup.restrict[x][1] = u}}
  IN IF listed = {} THEN {""} ELSE listed

\* persist_root/<unit>/<rel>
PersistedAt(u, rel) == "/srv/persist/" \o u \o (IF rel = "" THEN "" ELSE "/" \o rel)

\* <backup destination>/<rel> on the host h
BackedUpOn(h, u, rel) ==
  BackupRoot \o (IF u \in PerHostUnits THEN "/" \o h ELSE "") \o "/" \o u
     \o (IF rel = "" THEN "" ELSE "/" \o rel)

\* <backup destination>/<rel> on this host
BackedUpAt(u, rel) == BackedUpOn(hostname[1], u, rel)

\* a path of an rsync command line without the slash that may trail it
Untrailed(path) ==
  IF Len(path) > 1 /\ CharAt(path, Len(path)) = "/" THEN SubSeq(path, 1, Len(path) - 1) ELSE path

\* source and destination of an rsync entry: its last two arguments
SyncSrc(e) == Untrailed(e.argv[Len(e.argv) - 1])
SyncDest(e) == Untrailed(e.argv[Len(e.argv)])

\* the sub-paths of a unit that the run synchronized from src(rel) to dest(rel)
SyncedRels(u, src(_), dest(_)) ==
  {rel \in RestrictedTo(u) :
     \E n \in 1..Len(ran) : /\ ran[n].kind = "rsync"
                            /\ ran[n].unit = u
                            /\ SyncSrc(ran[n]) = src(rel)
                            /\ SyncDest(ran[n]) = dest(rel)}

C24_WitnessBackup ==
  /\ RanOnExecutor
  /\ pc = "done"
  /\ ~DRYRUN
  /\ invoked = "backup"
  /\ \E u \in Range(Called) :
       /\ Cardinality(RestrictedTo(u)) = 2
       /\ u \in PerHostUnits
       /\ SyncedRels(u, LAMBDA rel : PersistedAt(u, rel), LAMBDA rel : BackedUpAt(u, rel)) = RestrictedTo(u)

RestoredAuto ==
  /\ ret.op = "restore"
  /\ ~ret.arg[3]
  /\ ~NotBackedUp(site.dc_files[ret.arg[1]][2])

\* the sub-paths that call synchronized from the backup to the persisted directory
AutoRestored ==
  LET u == site.dc_files[ret.arg[1]][2].dc_name
      out == ret.val.out
  IN {rel \in RestrictedTo(u) :
        \E n \in 1..Len(out) : /\ out[n].kind = "rsync"
                               /\ SyncSrc(out[n]) = BackedUpOn(ret.arg[2], u, rel)
                               /\ SyncDest(out[n]) = PersistedAt(u, rel)}

\* C25: outside dry-run the restore of a non-special vanilla unit
\* synchronizes a configured sub-path from the backup destination to the
\* persisted directory whenever the backup folder of the sub-path exists,
\* also when persist_root/<unit>/<rel> does not exist yet; and
\* restore(auto=True) restores exactly the sub-paths whose persisted directory
\* is missing (and whose backup exists).
C25_RestoreWheneverBackupExists ==
  /\ RanOnExecutor /\ ~DRYRUN /\ invoked = "restore" /\ pc = "done" =>
       \A u \in Range(Called) :
          ~NotBackedUp(UnitNamed(u)) =>
             \A rel \in RestrictedTo(u) :
                is_dir(world.dirs, BackedUpAt(u, rel)) =>
                   rel \in SyncedRels(u, LAMBDA r : BackedUpAt(u, r), LAMBDA r : PersistedAt(u, r))
  /\ RestoredAuto =>
       LET u == site.dc_files[ret.arg[1]][2].dc_name
       IN AutoRestored = {rel \in RestrictedTo(u) : /\ ~is_dir(ret.arg[4], PersistedAt(u, rel))
                                                   /\ is_dir(ret.arg[4], BackedUpOn(ret.arg[2], u, rel))}

\* the step of an upgrade that an entry of the run stands for: 0 the call,
\* 1 a pull, 2 the line that ends an upgrade without news, 3 down,
\* 4 the backup, 5 prune, 6 up -d
UpgradeStep(e) ==
  CASE e.kind = "local" -> 0
    [] e.kind = "docker" /\ e.argv[1] = "pull" -> 1
    [] e.kind = "print" -> 2
    [] e.kind = "docker-compose" /\ e.argv[Len(e.argv)] = "down" -> 3
    [] e.kind \in {"ensure_folder", "rsync", "info"} -> 4
    [] e.kind = "docker" /\ e.argv = <<"image", "prune", "-f">> -> 5
    [] e.kind = "docker-compose" /\ SubSeq(e.argv, Len(e.argv) - 1, Len(e.argv)) = <<"up", "-d">> -> 6
    [] OTHER -> 7

\* the steps of the upgrade of a unit, in the order they were made
UpgradeSteps(u) == LET did == EntriesOf(u) IN [k \in 1..Len(did) |-> UpgradeStep(did[k])]

\* the upgrade of the unit is the one a failed command ended
EndedByFailure(u) == pc = "failed" /\ ran[Len(ran)].unit = u

Guarded == {n \in 1..Len(ran) : ran[n].kind \in {"local", "docker", "docker-compose", "rsync", "ensure_folder"}}

\* C28: no `assert GSRV.is_executor` fails in an invocation of the command
\* line.  The methods start, stop, restart, upgrade, backup and restore of a
\* unit, and run_docker (docker pull and prune of upgrade, docker ps of ps),
\* are called only where GSRV.is_executor is true, whatever the role, the
\* hostname, the target and the run assignment; an orchestrator only sends
\* commands over ssh.
C28_ExecutorAssertionsHold ==
  /\ pc # "assert_failed"
  /\ \A n \in 1..Len(ran) : ran[n].kind # "AssertionError"
  /\ Guarded # {} => is_executor = Some(TRUE)
  /\ is_executor = Some(FALSE) => \A n \in 1..Len(ran) : ran[n].kind = "ssh"

\* an upgrade on an executor that called a unit's method and run_docker,
\* where the assertions held
C28_Witness ==
  /\ is_executor = Some(TRUE)
  /\ invoked = "upgrade"
  /\ pc = "done"
  /\ \E n \in Guarded : ran[n].kind = "local"
  /\ \E n \in Guarded : ran[n].kind = "docker"

\* an orchestrator that was asked for a lifecycle command for units some
\* host runs: it sent the command and asserted nothing
C28_WitnessOrchestrator ==
  /\ is_executor = Some(FALSE)
  /\ pc = "done"
  /\ Len(target[1].dcs) > 0
  /\ Len(ran) > 0

(***************************************************************************)
(* Ports and volumes once more                                             *)
(***************************************************************************)

\* the hosts the site document's run assignment gives a unit
HostsOf(u) == {site.cfg.run[i][1] : i \in {x \in 1..Len(site.cfg.run) : u \in AssignedTo(site.cfg.run[x][1])}}

\* the last sanity_check reported a conflict on port p that names all the
\* units declaring it
ConflictReported(p) ==
  \E i \in 1..Len(ret.val) : \E f \in Perms(Declarers(p)) : ret.val[i][2] = PortMsg(p, f)

\* C29: sanity_check() reports a port conflict for any two distinct units
\* that declare the same host port, wherever the run assignment places them:
\* on one host, on different hosts, or on no host at all.
C29_ConflictWhateverTheAssignment ==
  (Checked /\ site.folder # None /\ cfg_yml_exists) =>
     /\ \A p \in DeclaredPorts :
          (\E u, v \in Declarers(p) : u # v) => ConflictReported(p)
     /\ \A i \in 1..Len(ret.val) :
          IsPortMsg(ret.val[i][2]) =>
             \E p \in DeclaredPorts : /\ Cardinality(Declarers(p)) >= 2
                                      /\ \E f \in Perms(Declarers(p)) : ret.val[i][2] = PortMsg(p, f)

\* a conflict was reported between two units that the run assignment gives
\* different hosts and never the same one
C29_Witness ==
  /\ Checked
  /\ \E p \in DeclaredPorts :
       /\ ConflictReported(p)
       /\ \E u, v \in Declarers(p) : /\ u # v
                                     /\ HostsOf(u) # {}
                                     /\ HostsOf(v) # {}
                                     /\ HostsOf(u) \cap HostsOf(v) = {}

\* a conflict was reported between two units that no host runs
C29_WitnessNoHost ==
  /\ Checked
  /\ \E p \in DeclaredPorts :
       /\ ConflictReported(p)
       /\ \E u, v \in Declarers(p) : u # v /\ HostsOf(u) = {} /\ HostsOf(v) = {}

\* the distinct host paths a service declares that are not under
\* persist_root/<unit>
Misplaced(dc, s) ==
  {h \in {HostPath(s.volumes[k]) : k \in 1..Len(s.volumes)} : ~UnderUnitRoot(dc.dc_name, h)}

\* the volume-layout problems among the problems of a check
VolumeProblems(problems) ==
  SelectSeq(problems, LAMBDA x : startswith(x[2], "Volume '"))

\* C30: the two volume predicates agree.  For a service of a non-special
\* unit the volume-layout check yields no problem iff the service's
\* Volumes.vanilla_backup is true, and it yields as many problems as the
\* service declares host paths that are not under persist_root/<unit>; and a
\* non-special unit with at least one service is vanilla iff the check of the
\* unit yields no volume-layout problem.
C30_VolumePredicatesAgree ==
  /\ ret.op = "volumes.sanity_check" /\ ~CalledUnit.is_special =>
       /\ (ret.val = <<>>) <=> DCVolumes_vanilla_backup(CalledUnit.dc_name, CalledService.volumes)
       /\ Len(ret.val) = Cardinality(Misplaced(CalledUnit, CalledService))
  /\ ret.op = "vanilla_backup" /\ ~CalledUnit.is_special /\ Len(CalledUnit.services) >= 1 =>
       (ret.val <=> VolumeProblems(SYDC_sanity_check(site.env, CalledUnit)) = <<>>)

\* the layout check of a service of a non-special unit found a misplaced host
\* path next to one in place, and the service is not vanilla
C30_Witness ==
  /\ ret.op = "volumes.sanity_check"
  /\ ~CalledUnit.is_special
  /\ Len(ret.val) >= 1
  /\ Len(ret.val) < Len(CalledService.volumes)
  /\ ~DCVolumes_vanilla_backup(CalledUnit.dc_name, CalledService.volumes)

\* a non-special unit with services is vanilla and its check finds no
\* volume-layout problem
C30_WitnessUnit ==
  /\ ret.op = "vanilla_backup"
  /\ ~CalledUnit.is_special
  /\ Len(CalledUnit.services) >= 1
  /\ ret.val
  /\ \E j \in 1..Len(CalledUnit.services) : Len(CalledUnit.services[j].volumes) > 0

====
